---------------------------- MODULE Spec2Model ----------------------------
(***************************************************************************)
(* A model of the Slack <-> Ollama chat relay: the command parser          *)
(* (slack_handler.py, chat_bot.py), the session store (session_manager.py),*)
(* the LLM gateway (llm/ollama_client.py, llm/manager.py, utils/           *)
(* api_utils.py, utils/error_handler.py) and the orchestrator              *)
(* (chat_bot.py).                                                          *)
(*                                                                         *)
(* Python strings are sequences of symbols.  A symbol is one character     *)
(* ("h", " ", "/", ...) wherever the code looks inside the string (event   *)
(* texts, directive contents, user messages); a fixed literal of the       *)
(* program that no code ever looks into (a notice, an error description)   *)
(* is a sequence holding that literal as one symbol.                       *)
(***************************************************************************)
EXTENDS Integers, Sequences, FiniteSets, TLC

(***************************************************************************)
(* Python values that may be None: Optional[str].                          *)
(***************************************************************************)
NONE == [some |-> FALSE, v |-> <<>>]
Some(s) == [some |-> TRUE, v |-> s]
\* Python truthiness of an Optional[str]: neither None nor the empty string.
Truthy(o) == o.some /\ o.v # <<>>

(***************************************************************************)
(* str methods                                                             *)
(***************************************************************************)
WS == {" "}

RECURSIVE LStrip(_)
LStrip(s) ==
    IF s # <<>> /\ Head(s) \in WS THEN LStrip(Tail(s)) ELSE s

RECURSIVE RStrip(_)
RStrip(s) ==
    IF s # <<>> /\ s[Len(s)] \in WS THEN RStrip(SubSeq(s, 1, Len(s) - 1)) ELSE s

\* str.strip()
Strip(s) == RStrip(LStrip(s))

\* str.startswith(p)
StartsWith(s, p) == Len(s) >= Len(p) /\ SubSeq(s, 1, Len(p)) = p

\* s[n:]
DropFirst(s, n) == SubSeq(s, n + 1, Len(s))

\* whether p occurs in s at position i
OccursAt(s, p, i) == i + Len(p) - 1 <= Len(s) /\ SubSeq(s, i, i + Len(p) - 1) = p

(***************************************************************************)
(* The directive patterns: the keyword system: or model: followed by a     *)
(* double-quoted content that holds no double quote.                       *)
(***************************************************************************)
QUOTE == "\""
system_kw == <<"s", "y", "s", "t", "e", "m", ":", QUOTE>>
model_kw == <<"m", "o", "d", "e", "l", ":", QUOTE>>

\* The positions where the pattern matches: the keyword (with its opening
\* quote) occurs there and a closing quote follows somewhere.
DirectiveStarts(s, kw) ==
    {i \in 1..Len(s) :
        /\ OccursAt(s, kw, i)
        /\ \E j \in (i + Len(kw))..Len(s) : s[j] = QUOTE}

Min(S) == CHOOSE x \in S : \A y \in S : x <= y

\* The closing quote of the match starting at i: the first quote after the
\* keyword, since the content holds no quote.
DirectiveEnd(s, kw, i) ==
    Min({j \in (i + Len(kw))..Len(s) : s[j] = QUOTE})

\* re.search(pattern, s): the leftmost match, as [found, start, end, group].
ReSearch(s, kw) ==
    LET starts == DirectiveStarts(s, kw) IN
    IF starts = {} THEN [found |-> FALSE, start |-> 0, end |-> 0, group |-> <<>>]
    ELSE LET i == Min(starts)
             j == DirectiveEnd(s, kw, i)
         IN [found |-> TRUE, start |-> i, end |-> j,
             group |-> SubSeq(s, i + Len(kw), j - 1)]

\* re.sub(pattern, empty, s): every non-overlapping match is removed, scanning
\* from the left.
RECURSIVE ReSubAll(_, _)
ReSubAll(s, kw) ==
    LET m == ReSearch(s, kw) IN
    IF ~m.found THEN s
    ELSE SubSeq(s, 1, m.start - 1) \o ReSubAll(DropFirst(s, m.end), kw)

(***************************************************************************)
(* Mention markup: <@ followed by one or more of A-Z, 0-9, then >         *)
(***************************************************************************)
IdChars == {"U", "1"}

\* The length of the run of [A-Z0-9] characters starting at position i.
RECURSIVE IdRun(_, _)
IdRun(s, i) ==
    IF i <= Len(s) /\ s[i] \in IdChars THEN 1 + IdRun(s, i + 1) ELSE 0

\* Whether the mention pattern matches at i: the run of id characters is
\* followed by the closing bracket.
MentionAt(s, i) ==
    /\ OccursAt(s, <<"<", "@">>, i)
    /\ IdRun(s, i + 2) >= 1
    /\ i + 2 + IdRun(s, i + 2) <= Len(s)
    /\ s[i + 2 + IdRun(s, i + 2)] = ">"

RECURSIVE RemoveMentions(_)
RemoveMentions(s) ==
    LET starts == {i \in 1..Len(s) : MentionAt(s, i)} IN
    IF starts = {} THEN s
    ELSE LET i == Min(starts)
             e == i + 2 + IdRun(s, i + 2)
         IN SubSeq(s, 1, i - 1) \o RemoveMentions(DropFirst(s, e))

\* SlackHandler.clean_mention_text
clean_mention_text(text) == Strip(RemoveMentions(text))

(***************************************************************************)
(* The command parser                                                      *)
(***************************************************************************)
cmd_ollama == <<"/", "o", "l", "l", "a", "m", "a">>
cmd_clear == <<"/", "c", "l", "e", "a", "r">>
cmd_help == <<"/", "h", "e", "l", "p">>

\* Mutant: the directive is captured but left in the text.
ExtractDirective_KeepText(clean_text, kw) ==
    LET m == ReSearch(clean_text, kw) IN
    IF m.found
    THEN [value |-> Some(m.group), text |-> Strip(clean_text)]
    ELSE [value |-> NONE, text |-> clean_text]

\* One directive step: search, capture group 1, remove the pattern, strip.
ExtractDirective(clean_text, kw) ==
    LET m == ReSearch(clean_text, kw) IN
    IF m.found
    THEN [value |-> Some(m.group), text |-> Strip(ReSubAll(clean_text, kw))]
    ELSE [value |-> NONE, text |-> clean_text]

\* Mutant: the text after /clear or /help is kept as the message.
ClassifyCommand_KeepArgs(clean_text) ==
    IF StartsWith(clean_text, cmd_ollama)
    THEN [command |-> "ollama", user_message |-> Strip(DropFirst(clean_text, 7))]
    ELSE IF StartsWith(clean_text, cmd_clear)
    THEN [command |-> "clear", user_message |-> Strip(DropFirst(clean_text, 6))]
    ELSE IF StartsWith(clean_text, cmd_help)
    THEN [command |-> "help", user_message |-> Strip(DropFirst(clean_text, 5))]
    ELSE [command |-> "ollama", user_message |-> clean_text]

\* The prefix classification shared by both parsers.
ClassifyCommand(clean_text) ==
    IF StartsWith(clean_text, cmd_ollama)
    THEN [command |-> "ollama", user_message |-> Strip(DropFirst(clean_text, 7))]
    ELSE IF StartsWith(clean_text, cmd_clear)
    THEN [command |-> "clear", user_message |-> <<>>]
    ELSE IF StartsWith(clean_text, cmd_help)
    THEN [command |-> "help", user_message |-> <<>>]
    ELSE [command |-> "ollama", user_message |-> clean_text]

ParseClean(clean_text) ==
    LET s == ExtractDirective(clean_text, system_kw)
        m == ExtractDirective(s.text, model_kw)
        c == ClassifyCommand(m.text)
    IN [command |-> c.command, user_message |-> c.user_message,
        system_prompt |-> s.value, model_name |-> m.value]

\* SlackHandler.parse_command_and_message (the mention path)
parse_command_and_message(text) == ParseClean(clean_mention_text(text))

\* ChatBot._parse_thread_message (the thread-reply path)
parse_thread_message(text) == ParseClean(Strip(text))

(***************************************************************************)
(* Fixed texts of the program                                              *)
(***************************************************************************)
EmptyNotice == <<"Message is empty. Do you have anything to ask?">>
ClearedNotice == <<"The conversation history in this thread has been cleared.">>
HelpMessage == <<"**Slack LLM Chat Bot Help** ...">>
OllamaFallback == <<"Sorry, I couldn't get a response from Ollama.">>
LLMFallback == <<"Sorry, I couldn't get a response from the LLM. Please try again.">>
SorryNotice == <<"Sorry, an error occurred during processing.">>
\* f"An error occurred: {str(e)}"
ErrorNotice(e) == <<"An error occurred: ", e>>

\* OLLAMA_MODEL, the configured default model
DefaultModel == <<"llama3">>

(***************************************************************************)
(* Bounds and input sets                                                   *)
(***************************************************************************)
\* Rows ever inserted into chat_messages in one run.
MaxInserts == 4

Procs == {1, 2}
\* One event at a time: the handlers run on one process.
SeqProcs == {1}

NoThread == "none"
Unbound == "unbound"
Threads == {"T1", "T2"}
\* The ts of an event that is itself a reply inside a thread.
ReplyTs == "T9"

Hi == <<"h", "i">>
Mention == <<"<", "@", "U", "1", ">">>

EventTexts ==
    { Hi,
      <<" ">>,
      Mention \o <<" ">> \o Hi,
      cmd_clear \o <<" ", "x">>,
      cmd_help,
      cmd_ollama,
      system_kw \o cmd_clear \o <<QUOTE, " ">> \o model_kw \o <<"m", QUOTE, " ">> \o Hi,
      model_kw \o <<QUOTE>> \o Hi }

\* app_mention events: {text, user, ts, thread_ts?}
MentionEvents ==
    {[text |-> t, ts |-> ts, thread_ts |-> NoThread, bot_id |-> FALSE, subtype |-> FALSE] :
        t \in EventTexts, ts \in Threads}
    \cup
    {[text |-> t, ts |-> ReplyTs, thread_ts |-> th, bot_id |-> FALSE, subtype |-> FALSE] :
        t \in EventTexts, th \in Threads}

\* message events: {text, user, ts, thread_ts?, bot_id?, subtype?}
MessageEvents ==
    {[text |-> t, ts |-> ReplyTs, thread_ts |-> th, bot_id |-> FALSE, subtype |-> FALSE] :
        t \in EventTexts, th \in Threads \cup {NoThread}}
    \cup
    {[text |-> Hi, ts |-> ReplyTs, thread_ts |-> th, bot_id |-> b, subtype |-> ~b] :
        th \in Threads, b \in BOOLEAN}

NoEvent == [text |-> <<>>, ts |-> NoThread, thread_ts |-> NoThread,
            bot_id |-> FALSE, subtype |-> FALSE]

\* The texts the parsers are applied to directly: up to MaxTokens pieces, glued.
MaxTokens == 3

SysAB == system_kw \o <<"a", " ", "b", QUOTE>>
SysClear == system_kw \o cmd_clear \o <<QUOTE>>
ModelM == model_kw \o <<"m", QUOTE>>

Tokens ==
    { Hi, <<" ">>, Mention,
      cmd_ollama, cmd_clear, cmd_help, cmd_ollama \o <<" ">> \o Hi,
      SysAB, SysClear, ModelM,
      <<"s", "y", "s">>, <<"t", "e", "m", ":", QUOTE, "y", QUOTE>>,
      <<"m", "o", "d">>, <<"e", "l", ":", QUOTE, "b", QUOTE>> }

RECURSIVE Glue(_)
Glue(ts) == IF ts = <<>> THEN <<>> ELSE Head(ts) \o Glue(Tail(ts))

ParserTexts == {Glue(ts) : ts \in UNION {[1..n -> Tokens] : n \in 0..MaxTokens}}

(***************************************************************************)
(* The backend: what one POST /api/chat can do                             *)
(***************************************************************************)
\* The bodies of a response:
\*   content_ok     {message: {content: ok}}
\*   content_blank  {message: {content: <spaces>}}
\*   no_content     {message: {}}
\*   content_null   {message: {content: null}}
\*   content_list   {message: {content: [x]}}
\*   no_message     {error: x}
\*   message_text   {message: x}
\*   not_json       a body that is no JSON
Bodies == {"content_ok", "content_blank", "no_content", "content_null",
           "content_list", "no_message", "message_text", "not_json"}

Statuses == {200, 201, 204, 302, 500}

Outcome(k, st, b) == [kind |-> k, status |-> st, body |-> b]

AllOutcomes ==
    {Outcome(k, 0, "none") : k \in {"timeout", "connection", "other"}}
    \cup {Outcome("response", 200, b) : b \in Bodies}
    \cup {Outcome("response", st, "no_message") : st \in Statuses \ {200}}

\* What a direct caller of the gateway passes.
MaxHistory == 2
HistoryMessages ==
    {[role |-> "user", content |-> Hi], [role |-> "assistant", content |-> <<"o", "k">>]}
Histories == UNION {[1..n -> HistoryMessages] : n \in 0..MaxHistory}
SystemPrompts == {NONE, Some(<<>>), Some(<<"s">>)}
ModelNames == {NONE, Some(<<>>), Some(<<"m">>)}

\* The outcomes the orchestrator's runs draw from.
TurnOutcomes ==
    {Outcome("timeout", 0, "none")}
    \cup {Outcome("response", 200, b) :
            b \in {"content_ok", "content_blank", "no_content", "content_list"}}

(***************************************************************************)
(* Python values returned by the gateway: a str, or what a malformed       *)
(* payload puts in its place.                                              *)
(***************************************************************************)
PyStr(s) == [type |-> "str", val |-> s]
PyList(s) == [type |-> "list", val |-> s]
PyNone == [type |-> "none", val |-> <<>>]

VARIABLES
    rows,       \* the table chat_messages, in insertion order
    nextId,     \* the next AUTOINCREMENT id
    model,      \* OllamaClient.model
    pc,         \* per process: where the handler is
    ev,         \* per process: the event being handled
    entry,      \* per process: "mention" or "message"
    thread_ts,  \* per process: the handler's local thread_ts
    parsed,     \* per process: command, user_message, system_prompt, model_name
    history,    \* per process: the local history
    response,   \* per process: the local response
    exc,        \* per process: the exception being handled
    log,        \* per process: the calls made for the current event, in order
    ask,        \* per process: the gateway invocation
    ret,        \* per process: the last direct call of the store and what it returned
    columns     \* the column names of chat_messages (PRAGMA table_info); {} with no table

vars == <<rows, nextId, model, pc, ev, entry, thread_ts, parsed, history,
          response, exc, log, ask, ret, columns>>

storeVars == <<rows, nextId, columns>>
handlerVars == <<pc, ev, entry, thread_ts, parsed, history, response, exc, log>>

(***************************************************************************)
(* The session store (SessionManager)                                      *)
(***************************************************************************)
\* get_history's default limit
DefaultLimit == 20

Row(id, t, role, content) ==
    [id |-> id, thread_id |-> t, role |-> role, content |-> content]

\* SELECT ... WHERE thread_id = ?
ThreadRows(rs, t) == SelectSeq(rs, LAMBDA r : r.thread_id = t)

Reverse(s) == [i \in 1..Len(s) |-> s[Len(s) + 1 - i]]

\* ORDER BY id DESC LIMIT n: rs is in ascending id order.
NewestFirst(rs, n) ==
    LET d == Reverse(rs) IN SubSeq(d, 1, IF n < Len(d) THEN n ELSE Len(d))

\* Mutant: the oldest rows are fetched instead of the newest (ORDER BY id ASC).
get_history_oldest(rs, t, limit) ==
    LET tr == ThreadRows(rs, t)
        oldest == SubSeq(tr, 1, IF limit < Len(tr) THEN limit ELSE Len(tr))
    IN [i \in 1..Len(oldest) |-> [role |-> oldest[i].role, content |-> oldest[i].content]]

\* Mutant: the newest rows are returned as fetched, newest first.
get_history_unreversed(rs, t, limit) ==
    LET newest == NewestFirst(ThreadRows(rs, t), limit) IN
    [i \in 1..Len(newest) |-> [role |-> newest[i].role, content |-> newest[i].content]]

\* get_history, when the query succeeds: the newest `limit` rows of the
\* thread, reversed into chronological order, as {role, content}.
get_history(rs, t, limit) ==
    LET newest == Reverse(NewestFirst(ThreadRows(rs, t), limit)) IN
    [i \in 1..Len(newest) |-> [role |-> newest[i].role, content |-> newest[i].content]]

\* Mutant: one row is not yet a history.
has_second_row(rs, t) == Len(ThreadRows(rs, t)) > 1

\* Mutant: the count is taken over the whole table.
has_any_history(rs, t) == Len(rs) > 0

\* has_thread_history, when the query succeeds: COUNT(*) > 0
has_thread_history(rs, t) == Len(ThreadRows(rs, t)) > 0

\* Mutant: the id is the largest id in the table plus one (a plain INTEGER
\* PRIMARY KEY).
NextRowId_MaxPlusOne(rs, seq) ==
    IF rs = <<>> THEN 1 ELSE rs[Len(rs)].id + 1

\* id INTEGER PRIMARY KEY AUTOINCREMENT: one more than the largest id ever
\* given, which is kept in seq
NextRowId(rs, seq) == seq

\* INSERT INTO chat_messages (thread_id, role, content)
InsertRow(rs, id, t, role, content) == Append(rs, Row(id, t, role, content))

\* Mutant: only the newest row of the thread is deleted.
DeleteThread_Newest(rs, t) ==
    LET idx == {i \in 1..Len(rs) : rs[i].thread_id = t} IN
    IF idx = {} THEN rs
    ELSE LET last == CHOOSE i \in idx : \A k \in idx : k <= i IN
         SubSeq(rs, 1, last - 1) \o SubSeq(rs, last + 1, Len(rs))

\* Mutant: the DELETE has no WHERE clause.
DeleteThread_All(rs, t) == <<>>

\* DELETE FROM chat_messages WHERE thread_id = ?
DeleteThread(rs, t) == SelectSeq(rs, LAMBDA r : r.thread_id # t)

(***************************************************************************)
(* The log of one event's calls                                            *)
(***************************************************************************)
Call(op, t, role, text, ok) ==
    [op |-> op, thread |-> t, role |-> role, text |-> text, ok |-> ok]

Logged(p, c) == log' = [log EXCEPT ![p] = Append(@, c)]

(***************************************************************************)
(* The LLM gateway (OllamaClient, LLMClientManager, APIUtils)              *)
(***************************************************************************)
NoOutcome == [kind |-> "none", status |-> 0, body |-> "none"]

NoAsk ==
    [pc |-> "idle", messages |-> <<>>, system_prompt |-> NONE, model_name |-> NONE,
     original_model |-> <<>>, requests |-> <<>>, outcome |-> NoOutcome,
     result |-> PyNone]

\* requests.Response.__bool__ is Response.ok: false for 4xx and 5xx.
ResponseTruthy(status) == ~(400 <= status /\ status < 600)

\* Mutant: every 2xx status is a success.
SuccessCodes_2xx == 200..299

\* handle_api_response's default success_codes
SuccessCodes == {200, 201, 202}

StatusStr(status) ==
    CASE status = 200 -> "200"
      [] status = 201 -> "201"
      [] status = 204 -> "204"
      [] status = 205 -> "205"
      [] status = 302 -> "302"
      [] status = 500 -> "500"
      [] OTHER -> "?"

\* APIUtils.extract_api_error_info: the status_code recorded for an
\* HTTPError carrying a response of this status.
ErrorStatusCode(status) ==
    IF ResponseTruthy(status) THEN StatusStr(status) ELSE "None"

\* Mutant: a connection failure is reported with the timeout's words.
format_user_friendly_error_merged(kind, status) ==
    CASE kind \in {"timeout", "connection"} -> <<"Ollama request timed out">>
      [] kind = "http" -> <<"Ollama error occurred: ", ErrorStatusCode(status)>>
      [] OTHER -> <<"Ollama unexpected error occurred: ", kind>>

\* APIUtils.format_user_friendly_error(e, "Ollama"), by the kind of exception
format_user_friendly_error(kind, status) ==
    CASE kind = "timeout" -> <<"Ollama request timed out">>
      [] kind = "connection" -> <<"Ollama could not connect to the server">>
      [] kind = "http" -> <<"Ollama error occurred: ", ErrorStatusCode(status)>>
      [] OTHER -> <<"Ollama unexpected error occurred: ", kind>>

\* Mutant: a payload without the message field is answered with the default
\* content, the empty string.
ChatSuccess_Default(body) ==
    CASE body = "content_ok" -> PyStr(<<"o", "k">>)
      [] body = "content_blank" -> PyStr(<<" ">>)
      [] body = "content_null" -> PyStr(format_user_friendly_error("TypeError", 0))
      [] body = "content_list" -> PyList(<<"x">>)
      [] body = "message_text" -> PyStr(format_user_friendly_error("AttributeError", 0))
      [] body = "not_json" -> PyStr(<<"not json">>)
      [] OTHER -> PyStr(<<>>)

\* What OllamaClient.chat makes of a response with a success code
\* (handle_api_response's result, then lines 84-94).
ChatSuccess(body) ==
    CASE body = "content_ok" -> PyStr(<<"o", "k">>)
      [] body = "content_blank" -> PyStr(<<" ">>)
      [] body = "no_content" -> PyStr(<<>>)
      \* len(None) raises TypeError inside the try
      [] body = "content_null" -> PyStr(format_user_friendly_error("TypeError", 0))
      \* len(list) succeeds and the list is returned as it is
      [] body = "content_list" -> PyList(<<"x">>)
      [] body = "no_message" -> PyStr(<<"{'error': 'x'}">>)
      \* str has no get: AttributeError inside the try
      [] body = "message_text" -> PyStr(format_user_friendly_error("AttributeError", 0))
      [] OTHER -> PyStr(<<"not json">>)

\* OllamaClient.chat's return value for one outcome of the request
ChatResult(o) ==
    IF o.kind = "response"
    THEN IF o.status \in SuccessCodes
         THEN ChatSuccess(o.body)
         ELSE PyStr(format_user_friendly_error("http", o.status))
    ELSE PyStr(format_user_friendly_error(
            IF o.kind = "other" THEN "Exception" ELSE o.kind, 0))

\* Mutant: the system entry is put after the history.
ProcessedMessages_Append(messages, system_prompt) ==
    IF Truthy(system_prompt)
    THEN Append(messages, [role |-> "system", content |-> system_prompt.v])
    ELSE messages

\* ask, lines 39-46: the system message goes first when system_prompt is truthy
ProcessedMessages(messages, system_prompt) ==
    IF Truthy(system_prompt)
    THEN <<[role |-> "system", content |-> system_prompt.v]>> \o messages
    ELSE messages

\* _create_chat_payload; chat's stream parameter keeps its default
ChatPayload(mdl, messages) ==
    [model |-> mdl, messages |-> messages, stream |-> FALSE]

\* The model ask sets before the request (lines 34-36)
ModelForCall(current, model_name) ==
    IF Truthy(model_name) THEN model_name.v ELSE current

\* Mutant: the original model is not put back.
ModelAfterCall_Keep(current, original_model, model_name) == current

\* The model ask leaves behind (lines 50-51)
ModelAfterCall(current, original_model, model_name) ==
    IF Truthy(model_name) THEN original_model ELSE current

\* ask, lines 34-36
AskSetModel(p) ==
    /\ ask[p].pc = "set"
    /\ model' = ModelForCall(model, ask[p].model_name)
    /\ ask' = [ask EXCEPT ![p].pc = "chat", ![p].original_model = model]
    /\ UNCHANGED <<storeVars, handlerVars, ret>>

\* Mutant: the request names the invocation's own model, the override or the
\* configured default, whatever the shared attribute holds.
Chat_OwnModel(p, o) ==
    /\ ask[p].pc = "chat"
    /\ ask' = [ask EXCEPT
                ![p].pc = "restore",
                ![p].requests = Append(@, ChatPayload(
                    ModelForCall(DefaultModel, ask[p].model_name),
                    ProcessedMessages(ask[p].messages, ask[p].system_prompt))),
                ![p].outcome = o,
                ![p].result = ChatResult(o)]
    /\ UNCHANGED <<model, storeVars, handlerVars, ret>>

\* Mutant: a request that failed in transport is sent a second time.
Chat_Retry(p, o) ==
    LET payload == ChatPayload(model,
                     ProcessedMessages(ask[p].messages, ask[p].system_prompt))
    IN /\ ask[p].pc = "chat"
       /\ ask' = [ask EXCEPT
                   ![p].pc = "restore",
                   ![p].requests = IF o.kind = "response"
                                   THEN Append(@, payload)
                                   ELSE Append(Append(@, payload), payload),
                   ![p].outcome = o,
                   ![p].result = ChatResult(o)]
       /\ UNCHANGED <<model, storeVars, handlerVars, ret>>

\* ask, lines 39-48, and chat: one request, whose outcome is o
Chat(p, o) ==
    /\ ask[p].pc = "chat"
    /\ ask' = [ask EXCEPT
                ![p].pc = "restore",
                ![p].requests = Append(@, ChatPayload(model,
                    ProcessedMessages(ask[p].messages, ask[p].system_prompt))),
                ![p].outcome = o,
                ![p].result = ChatResult(o)]
    /\ UNCHANGED <<model, storeVars, handlerVars, ret>>

\* ask, lines 50-53
AskRestore(p) ==
    /\ ask[p].pc = "restore"
    /\ model' = ModelAfterCall(model, ask[p].original_model, ask[p].model_name)
    /\ ask' = [ask EXCEPT ![p].pc = "ret"]
    /\ UNCHANGED <<storeVars, handlerVars, ret>>

\* A new invocation of LLMClientManager.ask("ollama", messages, ...)
NewAsk(messages, system_prompt, model_name) ==
    [pc |-> "set", messages |-> messages, system_prompt |-> system_prompt,
     model_name |-> model_name, original_model |-> <<>>, requests |-> <<>>,
     outcome |-> NoOutcome, result |-> PyNone]

\* A caller invokes LLMClientManager.ask("ollama", messages, system_prompt,
\* model_name) once the previous invocation has returned.
AskDirect(p, messages, system_prompt, model_name) ==
    /\ pc[p] = "idle" /\ ask[p].pc \in {"idle", "ret"}
    /\ ask' = [ask EXCEPT ![p] = NewAsk(messages, system_prompt, model_name)]
    /\ UNCHANGED <<model, storeVars, handlerVars, ret>>

(***************************************************************************)
(* The orchestrator (ChatBot)                                              *)
(***************************************************************************)
NoParse == [command |-> "none", user_message |-> <<>>,
            system_prompt |-> NONE, model_name |-> NONE]

\* Mutant: the event's own ts is always taken.
get_thread_id_ts(e) == e.ts

\* SlackHandler.get_thread_id: event.get("thread_ts") or event["ts"]
get_thread_id(e) == IF e.thread_ts # NoThread THEN e.thread_ts ELSE e.ts

\* The handler is free to take the next event.
Free(p) == pc[p] = "idle"

\* Room for the two rows of one more turn.
Room == nextId + 1 <= MaxInserts

Begin(p, e, kind, t, pr, next, calls) ==
    /\ ev' = [ev EXCEPT ![p] = e]
    /\ entry' = [entry EXCEPT ![p] = kind]
    /\ thread_ts' = [thread_ts EXCEPT ![p] = t]
    /\ parsed' = [parsed EXCEPT ![p] = pr]
    /\ history' = [history EXCEPT ![p] = <<>>]
    /\ response' = [response EXCEPT ![p] = <<>>]
    /\ exc' = [exc EXCEPT ![p] = "none"]
    /\ log' = [log EXCEPT ![p] = calls]
    /\ pc' = [pc EXCEPT ![p] = next]
    /\ UNCHANGED <<storeVars, model, ret, ask>>

\* _handle_mention, lines 30-60: up to the call of _process_user_input
HandleMention(p, e) ==
    /\ Free(p) /\ Room
    /\ Begin(p, e, "mention", get_thread_id(e),
             parse_command_and_message(e.text), "process", <<>>)

\* _handle_message, lines 77-82: a bot's own message, or one outside a thread
HandleMessageSkip(p, e) ==
    /\ Free(p) /\ Room
    /\ e.bot_id \/ e.subtype \/ e.thread_ts = NoThread
    /\ Begin(p, e, "message",
             IF e.bot_id \/ e.subtype THEN Unbound ELSE NoThread,
             NoParse, "done", <<>>)

\* Mutant: the empty-text check is missing.
HandleMessageGate_NoTextCheck(p, e, found, ok) ==
    LET t == e.thread_ts IN
    /\ Free(p) /\ Room
    /\ ~(e.bot_id \/ e.subtype) /\ t # NoThread
    /\ IF found
       THEN Begin(p, e, "message", t, parse_thread_message(e.text), "process",
                  <<Call("has", t, "", <<>>, ok)>>)
       ELSE Begin(p, e, "message", t, NoParse, "done",
                  <<Call("has", t, "", <<>>, ok)>>)

\* _handle_message, lines 84-118: has_thread_history answers found (False
\* when the query fails), then the empty-text check and the parse
HandleMessageGate(p, e, found, ok) ==
    LET t == e.thread_ts IN
    /\ Free(p) /\ Room
    /\ ~(e.bot_id \/ e.subtype) /\ t # NoThread
    /\ IF found /\ Strip(e.text) # <<>>
       THEN Begin(p, e, "message", t, parse_thread_message(e.text), "process",
                  <<Call("has", t, "", <<>>, ok)>>)
       ELSE Begin(p, e, "message", t, NoParse, "done",
                  <<Call("has", t, "", <<>>, ok)>>)

HandleMessage(p, e) ==
    \/ HandleMessageSkip(p, e)
    \/ HandleMessageGate(p, e, has_thread_history(rows, e.thread_ts), TRUE)
    \* sqlite3.Error in has_thread_history
    \/ HandleMessageGate(p, e, FALSE, FALSE)

Goto(p, next) == pc' = [pc EXCEPT ![p] = next]

Raise(p, e) ==
    /\ exc' = [exc EXCEPT ![p] = e]
    /\ pc' = [pc EXCEPT ![p] = "except"]

\* Mutant: the rows are gone although the clear raised.
ExecuteClear_DeleteThenRaise(p) ==
    /\ pc[p] = "process" /\ parsed[p].command = "clear"
    /\ rows' = DeleteThread(rows, thread_ts[p])
    /\ \/ /\ Logged(p, Call("clear", thread_ts[p], "", <<>>, TRUE))
          /\ Goto(p, "say_cleared")
          /\ UNCHANGED exc
       \/ /\ Logged(p, Call("clear", thread_ts[p], "", <<>>, FALSE))
          /\ Raise(p, "sqlite3.Error")
    /\ UNCHANGED <<nextId, columns, model, ret, ask, ev, entry, thread_ts, parsed, history,
                   response>>

\* Mutant: a failure of the clear is swallowed and the confirmation is sent.
ExecuteClear_Swallow(p) ==
    /\ pc[p] = "process" /\ parsed[p].command = "clear"
    /\ \/ /\ rows' = DeleteThread(rows, thread_ts[p])
          /\ Logged(p, Call("clear", thread_ts[p], "", <<>>, TRUE))
       \/ /\ Logged(p, Call("clear", thread_ts[p], "", <<>>, FALSE))
          /\ UNCHANGED rows
    /\ Goto(p, "say_cleared")
    /\ UNCHANGED <<nextId, columns, model, ret, ask, ev, entry, thread_ts, parsed, history,
                   response, exc>>

\* _execute_command, command clear: clear_thread_history (lines 202-203)
ExecuteClear(p) ==
    /\ pc[p] = "process" /\ parsed[p].command = "clear"
    /\ \/ /\ rows' = DeleteThread(rows, thread_ts[p])
          /\ Logged(p, Call("clear", thread_ts[p], "", <<>>, TRUE))
          /\ Goto(p, "say_cleared")
          /\ UNCHANGED exc
       \* sqlite3.Error, re-raised by clear_thread_history
       \/ /\ Logged(p, Call("clear", thread_ts[p], "", <<>>, FALSE))
          /\ Raise(p, "sqlite3.Error")
          /\ UNCHANGED rows
    /\ UNCHANGED <<nextId, columns, model, ret, ask, ev, entry, thread_ts, parsed, history, response>>

\* say(text, thread_ts=t): delivered, or the send raises
Say(p, text, next) ==
    /\ \/ /\ Logged(p, Call("say", thread_ts[p], "", text, TRUE))
          /\ Goto(p, next)
          /\ UNCHANGED exc
       \/ /\ Logged(p, Call("say", thread_ts[p], "", text, FALSE))
          /\ Raise(p, "SlackApiError")
    /\ UNCHANGED <<storeVars, model, ret, ask, ev, entry, thread_ts, parsed, history, response>>

\* _execute_command, lines 204-208: the confirmation of a clear
SayCleared(p) ==
    /\ pc[p] = "say_cleared"
    /\ Say(p, ClearedNotice, "done")

\* Mutant: the text of a help request is stored as the thread's user message.
ExecuteHelp_Stored(p) ==
    /\ pc[p] = "process" /\ parsed[p].command = "help"
    /\ rows' = InsertRow(rows, NextRowId(rows, nextId), thread_ts[p], "user", cmd_help)
    /\ nextId' = NextRowId(rows, nextId) + 1
    /\ \/ /\ Logged(p, Call("say", thread_ts[p], "", HelpMessage, TRUE))
          /\ Goto(p, "done")
          /\ UNCHANGED exc
       \/ /\ Logged(p, Call("say", thread_ts[p], "", HelpMessage, FALSE))
          /\ Raise(p, "SlackApiError")
    /\ UNCHANGED <<columns, model, ret, ask, ev, entry, thread_ts, parsed, history, response>>

\* _execute_command, lines 211-216: help
ExecuteHelp(p) ==
    /\ pc[p] = "process" /\ parsed[p].command = "help"
    /\ Say(p, HelpMessage, "done")

\* Mutant: an empty message is dropped without the notice.
RejectEmpty_Silent(p) ==
    /\ pc[p] = "process" /\ parsed[p].command \notin {"clear", "help"}
    /\ Strip(parsed[p].user_message) = <<>>
    /\ Goto(p, "done")
    /\ UNCHANGED <<storeVars, model, ret, ask, ev, entry, thread_ts, parsed, history,
                   response, exc, log>>

\* _process_user_input, lines 152-157: the empty-message notice
RejectEmpty(p) ==
    /\ pc[p] = "process" /\ parsed[p].command \notin {"clear", "help"}
    /\ Strip(parsed[p].user_message) = <<>>
    /\ Say(p, EmptyNotice, "done")

\* add_message(thread, role, content): the row is inserted, or sqlite3.Error
\* is re-raised
AddMessage(p, role, content, next) ==
    /\ \/ /\ rows' = InsertRow(rows, NextRowId(rows, nextId), thread_ts[p], role, content)
          /\ nextId' = NextRowId(rows, nextId) + 1
          /\ Logged(p, Call("add", thread_ts[p], role, content, TRUE))
          /\ Goto(p, next)
          /\ UNCHANGED exc
       \/ /\ Logged(p, Call("add", thread_ts[p], role, content, FALSE))
          /\ Raise(p, "sqlite3.Error")
          /\ UNCHANGED <<rows, nextId>>
    /\ UNCHANGED <<columns, model, ret, ask, ev, entry, thread_ts, parsed, history, response>>

\* Mutant: the pair is written at once, the assistant row as a placeholder.
AddUserMessage_Speculative(p) ==
    /\ pc[p] = "process" /\ parsed[p].command \notin {"clear", "help"}
    /\ Strip(parsed[p].user_message) # <<>>
    /\ rows' = InsertRow(InsertRow(rows, nextId, thread_ts[p], "user",
                                   parsed[p].user_message),
                         nextId + 1, thread_ts[p], "assistant", OllamaFallback)
    /\ nextId' = nextId + 2
    /\ log' = [log EXCEPT ![p] =
                 @ \o <<Call("add", thread_ts[p], "user", parsed[p].user_message, TRUE),
                        Call("add", thread_ts[p], "assistant", OllamaFallback, TRUE)>>]
    /\ Goto(p, "history")
    /\ UNCHANGED <<columns, model, ret, ask, ev, entry, thread_ts, parsed, history, response, exc>>

\* Mutant: a system prompt is kept with the thread, as a system row before
\* the user row.
AddUserMessage_KeepDirective(p) ==
    /\ pc[p] = "process" /\ parsed[p].command \notin {"clear", "help"}
    /\ Strip(parsed[p].user_message) # <<>>
    /\ IF parsed[p].system_prompt.some
       THEN /\ rows' = InsertRow(InsertRow(rows, nextId, thread_ts[p], "system",
                                           parsed[p].system_prompt.v),
                                 nextId + 1, thread_ts[p], "user",
                                 parsed[p].user_message)
            /\ nextId' = nextId + 2
            /\ Logged(p, Call("add", thread_ts[p], "user", parsed[p].user_message, TRUE))
            /\ Goto(p, "history")
            /\ UNCHANGED <<columns, model, ret, ask, ev, entry, thread_ts, parsed, history,
                           response, exc>>
       ELSE AddMessage(p, "user", parsed[p].user_message, "history")

\* Mutant: the user message is stored without the test for an empty one.
AddUserMessage_Unguarded(p) ==
    /\ pc[p] = "process" /\ parsed[p].command \notin {"clear", "help"}
    /\ AddMessage(p, "user", parsed[p].user_message, "history")

\* _process_user_input, line 160
AddUserMessage(p) ==
    /\ pc[p] = "process" /\ parsed[p].command \notin {"clear", "help"}
    /\ Strip(parsed[p].user_message) # <<>>
    /\ AddMessage(p, "user", parsed[p].user_message, "history")

\* Mutant: the history is the one from before the user row was stored.
GetHistory_Stale(p) ==
    /\ pc[p] = "history"
    /\ \/ /\ history' = [history EXCEPT ![p] =
                          get_history(SubSeq(rows, 1, Len(rows) - 1), thread_ts[p],
                                      DefaultLimit)]
          /\ Logged(p, Call("hist", thread_ts[p], "", <<>>, TRUE))
       \/ /\ history' = [history EXCEPT ![p] = <<>>]
          /\ Logged(p, Call("hist", thread_ts[p], "", <<>>, FALSE))
    /\ Goto(p, "query")
    /\ UNCHANGED <<storeVars, model, ret, ask, ev, entry, thread_ts, parsed, response, exc>>

\* Mutant: the read leaves out the user rows of the other events that are
\* in the middle of a turn on the thread.
GetHistory_OwnTurns(p) ==
    LET others == {q \in Procs \ {p} :
                     /\ pc[q] \notin {"idle", "done"} /\ thread_ts[q] = thread_ts[p]
                     /\ \E i \in 1..Len(log[q]) :
                           log[q][i].op = "add" /\ log[q][i].role = "user" /\ log[q][i].ok
                     /\ \A i \in 1..Len(log[q]) :
                           ~(log[q][i].op = "add" /\ log[q][i].role = "assistant"
                             /\ log[q][i].ok)}
        Visible(r) == ~(r.role = "user"
                        /\ \E q \in others : r.content = parsed[q].user_message)
    IN /\ pc[p] = "history"
       /\ \/ /\ history' = [history EXCEPT ![p] =
                             get_history(SelectSeq(rows, Visible), thread_ts[p],
                                         DefaultLimit)]
             /\ Logged(p, Call("hist", thread_ts[p], "", <<>>, TRUE))
          \/ /\ history' = [history EXCEPT ![p] = <<>>]
             /\ Logged(p, Call("hist", thread_ts[p], "", <<>>, FALSE))
       /\ Goto(p, "query")
       /\ UNCHANGED <<storeVars, model, ret, ask, ev, entry, thread_ts, parsed, response, exc>>

\* _process_user_input, line 163: get_history(thread_ts); [] when the query fails
GetHistory(p) ==
    /\ pc[p] = "history"
    /\ \/ /\ history' = [history EXCEPT ![p] = get_history(rows, thread_ts[p], DefaultLimit)]
          /\ Logged(p, Call("hist", thread_ts[p], "", <<>>, TRUE))
       \/ /\ history' = [history EXCEPT ![p] = <<>>]
          /\ Logged(p, Call("hist", thread_ts[p], "", <<>>, FALSE))
    /\ Goto(p, "query")
    /\ UNCHANGED <<storeVars, model, ret, ask, ev, entry, thread_ts, parsed, response, exc>>

\* _query_llm, lines 235-237: llm_manager.ask("ollama", history, system_prompt, model_name)
QueryLLM(p) ==
    /\ pc[p] = "query"
    /\ ask' = [ask EXCEPT ![p] =
                NewAsk(history[p], parsed[p].system_prompt, parsed[p].model_name)]
    /\ Logged(p, Call("ask", thread_ts[p], "", <<>>, TRUE))
    /\ Goto(p, "wait_llm")
    /\ UNCHANGED <<storeVars, model, ret, ev, entry, thread_ts, parsed, history, response, exc>>

\* str.strip() exists on a str only
CanStrip(r) == r.type = "str"

\* not response or not response.strip(), for a str
Blank(s) == s = <<>> \/ Strip(s) = <<>>

\* _query_llm, lines 240-247
query_llm_response(s) == IF Blank(s) THEN OllamaFallback ELSE s

\* _process_user_input, lines 171-176
final_response(s) == IF Blank(s) THEN LLMFallback ELSE s

\* _query_llm, lines 238-247, and _process_user_input, lines 171-176, on the
\* value the gateway returned
LLMReturn(p) ==
    /\ pc[p] = "wait_llm" /\ ask[p].pc = "ret"
    /\ IF CanStrip(ask[p].result)
       THEN /\ response' = [response EXCEPT ![p] =
                                final_response(query_llm_response(ask[p].result.val))]
            /\ Goto(p, "add_assistant")
            /\ UNCHANGED exc
       \* response.strip() raises AttributeError
       ELSE /\ Raise(p, "AttributeError")
            /\ UNCHANGED response
    /\ UNCHANGED <<storeVars, model, ret, ask, ev, entry, thread_ts, parsed, history, log>>

\* Mutant: when the assistant row cannot be written the user row of the turn
\* is taken back.
AddAssistantMessage_Rollback(p) ==
    /\ pc[p] = "add_assistant"
    /\ \/ /\ rows' = InsertRow(rows, NextRowId(rows, nextId), thread_ts[p],
                               "assistant", response[p])
          /\ nextId' = NextRowId(rows, nextId) + 1
          /\ Logged(p, Call("add", thread_ts[p], "assistant", response[p], TRUE))
          /\ Goto(p, "say_response")
          /\ UNCHANGED exc
       \/ /\ rows' = SubSeq(rows, 1, Len(rows) - 1)
          /\ Logged(p, Call("add", thread_ts[p], "assistant", response[p], FALSE))
          /\ Raise(p, "sqlite3.Error")
          /\ UNCHANGED nextId
    /\ UNCHANGED <<columns, model, ret, ask, ev, entry, thread_ts, parsed, history, response>>

\* _process_user_input, line 179
AddAssistantMessage(p) ==
    /\ pc[p] = "add_assistant"
    /\ AddMessage(p, "assistant", response[p], "say_response")

\* Mutant: what the gateway returned is sent as it came.
SayResponse_Raw(p) ==
    /\ pc[p] = "say_response"
    /\ Say(p, ask[p].result.val, "done")

\* _process_user_input, line 188
SayResponse(p) ==
    /\ pc[p] = "say_response"
    /\ Say(p, response[p], "done")

\* Mutant: the exception is raised again once the notice is out.
SayError_Reraise(p) ==
    /\ pc[p] = "except"
    /\ \E ok \in BOOLEAN :
          Logged(p, Call("say", thread_ts[p], "", ErrorNotice(exc[p]), ok))
    /\ Goto(p, "outer_except")
    /\ UNCHANGED <<storeVars, model, ret, ask, ev, entry, thread_ts, parsed, history, response, exc>>

\* _process_user_input, lines 191-197: the notice; if the send raises, the
\* exception leaves _process_user_input
SayError(p) ==
    /\ pc[p] = "except"
    /\ \/ /\ Logged(p, Call("say", thread_ts[p], "", ErrorNotice(exc[p]), TRUE))
          /\ Goto(p, "done")
       \/ /\ Logged(p, Call("say", thread_ts[p], "", ErrorNotice(exc[p]), FALSE))
          /\ Goto(p, "outer_except")
    /\ UNCHANGED <<storeVars, model, ret, ask, ev, entry, thread_ts, parsed, history, response, exc>>

\* Mutant: the entry point's except re-raises when its own send fails.
SaySorry_Reraise(p) ==
    /\ pc[p] = "outer_except"
    /\ \E ok \in BOOLEAN :
          /\ Logged(p, Call("say", thread_ts[p], "", SorryNotice, ok))
          /\ Goto(p, IF ok THEN "done" ELSE "crashed")
    /\ UNCHANGED <<storeVars, model, ret, ask, ev, entry, thread_ts, parsed, history, response, exc>>

\* _handle_mention, lines 62-71, and _handle_message, lines 120-129: the
\* second notice; the bare except swallows a failure of its send
SaySorry(p) ==
    /\ pc[p] = "outer_except"
    /\ \E ok \in BOOLEAN : Logged(p, Call("say", thread_ts[p], "", SorryNotice, ok))
    /\ Goto(p, "done")
    /\ UNCHANGED <<storeVars, model, ret, ask, ev, entry, thread_ts, parsed, history, response, exc>>

\* The handler returns to the event source; its locals are gone.
Return(p) ==
    /\ pc[p] = "done"
    /\ pc' = [pc EXCEPT ![p] = "idle"]
    /\ ev' = [ev EXCEPT ![p] = NoEvent]
    /\ entry' = [entry EXCEPT ![p] = "none"]
    /\ thread_ts' = [thread_ts EXCEPT ![p] = Unbound]
    /\ parsed' = [parsed EXCEPT ![p] = NoParse]
    /\ history' = [history EXCEPT ![p] = <<>>]
    /\ response' = [response EXCEPT ![p] = <<>>]
    /\ exc' = [exc EXCEPT ![p] = "none"]
    /\ log' = [log EXCEPT ![p] = <<>>]
    /\ ask' = [ask EXCEPT ![p] = NoAsk]
    /\ UNCHANGED <<storeVars, model, ret>>

(***************************************************************************)
(* Direct calls of the session store, one at a time                        *)
(***************************************************************************)
\* The limit argument of get_history: given, or left to its default.
NoLimit == [some |-> FALSE, v |-> 0]
Limit(n) == [some |-> TRUE, v |-> n]
Limits == {NoLimit} \cup {Limit(n) : n \in {0, 1, 2}}

\* def get_history(self, thread_id, limit=20)
EffectiveLimit(l) == IF l.some THEN l.v ELSE DefaultLimit

\* The messages a direct caller stores.
StoreMessages == HistoryMessages

\* Rows a direct caller ever inserts in one run.
MaxStoreInserts == 3

\* get_statistics returns {} when sqlite3.Error is caught
EmptyStats ==
    [empty |-> TRUE, total_messages |-> 0, total_threads |-> 0,
     user_messages |-> 0, assistant_messages |-> 0]

NoRet ==
    [op |-> "none", thread |-> NoThread, limit |-> NoLimit, failed |-> FALSE,
     raised |-> "none", messages |-> <<>>, found |-> FALSE, count_before |-> 0,
     stats |-> EmptyStats, threads |-> <<>>,
     prev |-> [op |-> "none", thread |-> NoThread, failed |-> FALSE]]

\* The record of one call: what was called, whether storage failed under it,
\* and what came back.
Returned(p, op, t, l, failed, raised, messages, found, before) ==
    ret' = [ret EXCEPT ![p] =
              [op |-> op, thread |-> t, limit |-> l, failed |-> failed,
               raised |-> raised, messages |-> messages, found |-> found,
               count_before |-> before,
               stats |-> EmptyStats, threads |-> <<>>,
               prev |-> [op |-> ret[p].op, thread |-> ret[p].thread,
                         failed |-> ret[p].failed]]]

\* add_message(t, role, content): the row is inserted, or sqlite3.Error is
\* re-raised
AddMessageDirect(p, t, m, failed) ==
    /\ pc[p] = "idle" /\ nextId <= MaxStoreInserts
    /\ IF failed
       THEN /\ UNCHANGED <<rows, nextId>>
            /\ Returned(p, "add", t, NoLimit, TRUE, "sqlite3.Error", <<>>, FALSE,
                        Len(ThreadRows(rows, t)))
       ELSE /\ rows' = InsertRow(rows, NextRowId(rows, nextId), t, m.role, m.content)
            /\ nextId' = NextRowId(rows, nextId) + 1
            /\ Returned(p, "add", t, NoLimit, FALSE, "none", <<>>, FALSE,
                        Len(ThreadRows(rows, t)))
    /\ UNCHANGED <<columns, model, ask, handlerVars>>

\* Mutant: clearing a thread that has no row is an error.
clear_thread_history_strict(p, t, failed) ==
    LET before == Len(ThreadRows(rows, t)) IN
    /\ pc[p] = "idle"
    /\ IF failed \/ before = 0
       THEN /\ UNCHANGED rows
            /\ Returned(p, "clear", t, NoLimit, failed, "sqlite3.Error", <<>>, FALSE,
                        before)
       ELSE /\ rows' = DeleteThread(rows, t)
            /\ Returned(p, "clear", t, NoLimit, FALSE, "none", <<>>, FALSE, before)
    /\ UNCHANGED <<nextId, columns, model, ask, handlerVars>>

\* clear_thread_history(t): the COUNT, the DELETE and the commit, or
\* sqlite3.Error is re-raised
clear_thread_history(p, t, failed) ==
    LET before == Len(ThreadRows(rows, t)) IN
    /\ pc[p] = "idle"
    /\ IF failed
       THEN /\ UNCHANGED rows
            /\ Returned(p, "clear", t, NoLimit, TRUE, "sqlite3.Error", <<>>, FALSE,
                        before)
       ELSE /\ rows' = DeleteThread(rows, t)
            /\ Returned(p, "clear", t, NoLimit, FALSE, "none", <<>>, FALSE, before)
    /\ UNCHANGED <<nextId, columns, model, ask, handlerVars>>

\* get_history(t) or get_history(t, limit): the messages, or [] when
\* sqlite3.Error is caught
GetHistoryDirect(p, t, l, failed) ==
    /\ pc[p] = "idle"
    /\ Returned(p, "hist", t, l, failed, "none",
                IF failed THEN <<>> ELSE get_history(rows, t, EffectiveLimit(l)),
                FALSE, Len(ThreadRows(rows, t)))
    /\ UNCHANGED <<storeVars, model, ask, handlerVars>>

\* has_thread_history(t): count > 0, or False when sqlite3.Error is caught
HasHistoryDirect(p, t, failed) ==
    /\ pc[p] = "idle"
    /\ Returned(p, "has", t, NoLimit, failed, "none", <<>>,
                IF failed THEN FALSE ELSE has_thread_history(rows, t),
                Len(ThreadRows(rows, t)))
    /\ UNCHANGED <<storeVars, model, ask, handlerVars>>

\* The record of a call that takes no thread: get_statistics, get_all_threads
ReturnedAll(p, op, failed, stats, threads) ==
    ret' = [ret EXCEPT ![p] =
              [NoRet EXCEPT !.op = op, !.failed = failed, !.stats = stats,
                            !.threads = threads, !.count_before = Len(rows),
                            !.prev = [op |-> ret[p].op, thread |-> ret[p].thread,
                                      failed |-> ret[p].failed]]]

\* The four counts of get_statistics
Statistics(rs) ==
    [empty |-> FALSE,
     total_messages |-> Len(rs),
     total_threads |-> Cardinality({rs[i].thread_id : i \in 1..Len(rs)}),
     user_messages |-> Cardinality({i \in 1..Len(rs) : rs[i].role = "user"}),
     assistant_messages |-> Cardinality({i \in 1..Len(rs) : rs[i].role = "assistant"})]

\* get_statistics(): the counts, or {} when sqlite3.Error is caught
get_statistics(p, failed) ==
    /\ pc[p] = "idle"
    /\ ReturnedAll(p, "stats", failed,
                   IF failed THEN EmptyStats ELSE Statistics(rows), <<>>)
    /\ UNCHANGED <<storeVars, model, ask, handlerVars>>

\* ORDER BY thread_id over the thread ids in use
ThreadOrder == <<"T1", "T2">>

HasRows(rs, t) == \E i \in 1..Len(rs) : rs[i].thread_id = t

\* SELECT DISTINCT thread_id FROM chat_messages ORDER BY thread_id
AllThreads(rs) ==
    LET first == IF HasRows(rs, ThreadOrder[1]) THEN <<ThreadOrder[1]>> ELSE <<>>
        second == IF HasRows(rs, ThreadOrder[2]) THEN <<ThreadOrder[2]>> ELSE <<>>
    IN first \o second

\* get_all_threads(): the thread ids, or [] when sqlite3.Error is caught
get_all_threads(p, failed) ==
    /\ pc[p] = "idle"
    /\ ReturnedAll(p, "threads", failed, EmptyStats,
                   IF failed THEN <<>> ELSE AllThreads(rows))
    /\ UNCHANGED <<storeVars, model, ask, handlerVars>>

\* The direct caller lets go of what the last call returned.
Forget(p) ==
    /\ pc[p] = "idle" /\ ret[p] # NoRet
    /\ ret' = [ret EXCEPT ![p] = NoRet]
    /\ UNCHANGED <<storeVars, model, ask, handlerVars>>

(***************************************************************************)
(* The schema of chat_messages and _init_database                          *)
(***************************************************************************)
NoTable == {}
BaseColumns == {"id", "thread_id", "role", "content"}
\* CREATE TABLE chat_messages (id, thread_id, role, content, created_at)
CurrentColumns == BaseColumns \cup {"created_at"}
\* A table of an older revision, its time column named timestamp
TimestampColumns == BaseColumns \cup {"timestamp"}
\* What the database file may hold when the program starts.
Schemas == {NoTable, CurrentColumns, TimestampColumns, BaseColumns}

\* Rows in the table when the program starts.
MaxOldRows == 2
OldRows ==
    UNION {[1..n -> Threads \X StoreMessages] : n \in 0..MaxOldRows}

\* The row that INSERT number i left, for thread and message tm
StoredBefore(old) ==
    [i \in 1..Len(old) |->
        [id |-> i, thread_id |-> old[i][1], role |-> old[i][2].role,
         content |-> old[i][2].content]]

\* ALTER TABLE ... ADD COLUMN created_at TIMESTAMP DEFAULT CURRENT_TIMESTAMP:
\* SQLite refuses a column with a non-constant default when the table has
\* rows ("Cannot add a column with non-constant default").
CanAddColumn(rs) == rs = <<>>

\* _init_database: CREATE TABLE, RENAME COLUMN, ADD COLUMN or nothing, by
\* the columns found; sqlite3.Error is re-raised
init_database(p) ==
    /\ pc[p] = "idle"
    /\ IF columns = NoTable
       THEN /\ columns' = CurrentColumns
            /\ Returned(p, "init", NoThread, NoLimit, FALSE, "none", <<>>, FALSE,
                        Len(rows))
       ELSE IF "timestamp" \in columns /\ "created_at" \notin columns
       THEN /\ columns' = (columns \ {"timestamp"}) \cup {"created_at"}
            /\ Returned(p, "init", NoThread, NoLimit, FALSE, "none", <<>>, FALSE,
                        Len(rows))
       ELSE IF "created_at" \notin columns
       THEN IF CanAddColumn(rows)
            THEN /\ columns' = columns \cup {"created_at"}
                 /\ Returned(p, "init", NoThread, NoLimit, FALSE, "none", <<>>, FALSE,
                             Len(rows))
            ELSE /\ UNCHANGED columns
                 /\ Returned(p, "init", NoThread, NoLimit, TRUE,
                             "sqlite3.OperationalError", <<>>, FALSE, Len(rows))
       ELSE /\ UNCHANGED columns
            /\ Returned(p, "init", NoThread, NoLimit, FALSE, "none", <<>>, FALSE,
                        Len(rows))
    /\ UNCHANGED <<rows, nextId, model, ask, handlerVars>>

(***************************************************************************)
(* Direct calls of the parsers                                             *)
(***************************************************************************)
\* No parser has been applied for p yet.
Unparsed(p) == pc[p] = "idle" /\ entry[p] = "none"

Parsing(p, kind, text, result) ==
    /\ ev' = [ev EXCEPT ![p] = [NoEvent EXCEPT !.text = text]]
    /\ entry' = [entry EXCEPT ![p] = kind]
    /\ parsed' = [parsed EXCEPT ![p] = result]
    /\ UNCHANGED <<storeVars, model, ask, ret, pc, thread_ts, history, response,
                   exc, log>>

\* SlackHandler.parse_command_and_message(text)
ParseMention(p) ==
    /\ Unparsed(p)
    /\ \E text \in ParserTexts :
          Parsing(p, "mention", text, parse_command_and_message(text))

\* ChatBot._parse_thread_message(text)
ParseThread(p) ==
    /\ Unparsed(p)
    /\ \E text \in ParserTexts :
          Parsing(p, "message", text, parse_thread_message(text))

Gateway(p, outcomes) ==
    \/ AskSetModel(p)
    \/ \E o \in outcomes : Chat(p, o)
    \/ AskRestore(p)

Handler(p) ==
    \/ \E e \in MentionEvents : HandleMention(p, e)
    \/ \E e \in MessageEvents : HandleMessage(p, e)
    \/ ExecuteClear(p)
    \/ SayCleared(p)
    \/ ExecuteHelp(p)
    \/ RejectEmpty(p)
    \/ AddUserMessage(p)
    \/ GetHistory(p)
    \/ QueryLLM(p)
    \/ LLMReturn(p)
    \/ AddAssistantMessage(p)
    \/ SayResponse(p)
    \/ SayError(p)
    \/ SaySorry(p)
    \/ Return(p)

Init ==
    /\ rows = <<>>
    /\ nextId = 1
    /\ model = DefaultModel
    /\ pc = [p \in Procs |-> "idle"]
    /\ ev = [p \in Procs |-> NoEvent]
    /\ entry = [p \in Procs |-> "none"]
    /\ thread_ts = [p \in Procs |-> Unbound]
    /\ parsed = [p \in Procs |-> NoParse]
    /\ history = [p \in Procs |-> <<>>]
    /\ response = [p \in Procs |-> <<>>]
    /\ exc = [p \in Procs |-> "none"]
    /\ log = [p \in Procs |-> <<>>]
    /\ ask = [p \in Procs |-> NoAsk]
    /\ ret = [p \in Procs |-> NoRet]
    /\ columns = CurrentColumns

\* Events are handled one at a time, each to completion.
Next == \E p \in SeqProcs : Handler(p) \/ Gateway(p, TurnOutcomes)

Spec == Init /\ [][Next]_vars

\* The gateway alone, called directly, one invocation at a time.
NextAsk ==
    \E p \in SeqProcs :
        \/ \E h \in Histories, sp \in SystemPrompts, mn \in ModelNames :
              AskDirect(p, h, sp, mn)
        \/ Gateway(p, AllOutcomes)

SpecAsk == Init /\ [][NextAsk]_vars

\* The session store alone, called directly, one call at a time.
NextStore ==
    \E p \in SeqProcs, t \in Threads, failed \in BOOLEAN :
        \/ \E m \in StoreMessages : AddMessageDirect(p, t, m, failed)
        \/ clear_thread_history(p, t, failed)
        \/ \E l \in Limits : GetHistoryDirect(p, t, l, failed)
        \/ HasHistoryDirect(p, t, failed)

SpecStore == Init /\ [][NextStore]_vars

\* The events of the runs in which storage fails: a first message to the bot
\* and a clear, each opening its own thread.
FailEvents ==
    {[text |-> t, ts |-> ts, thread_ts |-> NoThread, bot_id |-> FALSE, subtype |-> FALSE] :
        t \in {Hi, cmd_clear \o <<" ", "x">>}, ts \in Threads}

ReplyOk == Outcome("response", 200, "content_ok")

\* The orchestrator over a store whose every call may fail, and between its
\* events a caller that reads the store directly, one call at a time.
NextFail ==
    \E p \in SeqProcs :
        \/ ret[p] = NoRet /\ \E e \in FailEvents : HandleMention(p, e)
        \/ ExecuteClear(p)
        \/ SayCleared(p)
        \/ AddUserMessage(p)
        \/ GetHistory(p)
        \/ QueryLLM(p)
        \/ Gateway(p, {ReplyOk})
        \/ LLMReturn(p)
        \/ AddAssistantMessage(p)
        \/ SayResponse(p)
        \/ SayError(p)
        \/ SaySorry(p)
        \/ Return(p)
        \/ /\ ret[p] = NoRet
           /\ \E failed \in BOOLEAN :
                 \/ \E t \in Threads : GetHistoryDirect(p, t, NoLimit, failed)
                 \/ \E t \in Threads : HasHistoryDirect(p, t, failed)
                 \/ get_statistics(p, failed)
                 \/ get_all_threads(p, failed)
        \/ Forget(p)

SpecFail == Init /\ [][NextFail]_vars

\* The database file as the program finds it: no table, or a table of the
\* current or of an older revision with the rows written so far.
InitDb ==
    /\ columns \in Schemas
    /\ \E old \in OldRows :
          /\ columns = NoTable => old = <<>>
          /\ rows = StoredBefore(old)
          /\ nextId = Len(old) + 1
    /\ model = DefaultModel
    /\ pc = [p \in Procs |-> "idle"]
    /\ ev = [p \in Procs |-> NoEvent]
    /\ entry = [p \in Procs |-> "none"]
    /\ thread_ts = [p \in Procs |-> Unbound]
    /\ parsed = [p \in Procs |-> NoParse]
    /\ history = [p \in Procs |-> <<>>]
    /\ response = [p \in Procs |-> <<>>]
    /\ exc = [p \in Procs |-> "none"]
    /\ log = [p \in Procs |-> <<>>]
    /\ ask = [p \in Procs |-> NoAsk]
    /\ ret = [p \in Procs |-> NoRet]

\* SessionManager is constructed, once or again, over the file.
NextInit == \E p \in SeqProcs : init_database(p)

SpecInit == InitDb /\ [][NextInit]_vars

\* The overrides of the invocations that run side by side.
ParModelNames == {NONE, Some(<<"m">>), Some(<<"n">>)}

ParHistory == <<[role |-> "user", content |-> Hi]>>

\* Two callers of the one gateway, their invocations interleaved step by step.
NextAskPar ==
    \E p \in Procs :
        \/ \E mn \in ParModelNames : AskDirect(p, ParHistory, NONE, mn)
        \/ Gateway(p, {ReplyOk})

SpecAskPar == Init /\ [][NextAskPar]_vars

\* Two mentions inside the one thread T1, told apart by their texts.
Yo == <<"y", "o">>

ParEvents ==
    {[text |-> t, ts |-> ReplyTs, thread_ts |-> "T1", bot_id |-> FALSE, subtype |-> FALSE] :
        t \in {Hi, Yo}}

\* No row has been written yet.
FreshStore == nextId = 1

\* The listeners run on several threads of the process: the steps of two
\* events, both arriving before the thread has a row, are interleaved.
NextPar ==
    \E p \in Procs :
        \/ FreshStore /\ \E e \in ParEvents : HandleMention(p, e)
        \/ AddUserMessage(p)
        \/ GetHistory(p)
        \/ QueryLLM(p)
        \/ Gateway(p, {ReplyOk})
        \/ LLMReturn(p)
        \/ AddAssistantMessage(p)
        \/ SayResponse(p)
        \/ SayError(p)
        \/ SaySorry(p)
        \/ Return(p)

SpecPar == Init /\ [][NextPar]_vars

\* The parsers alone, each applied once to a text.
NextParse ==
    \E p \in SeqProcs :
        \/ ParseMention(p)
        \/ ParseThread(p)

SpecParse == Init /\ [][NextParse]_vars

(***************************************************************************)
(* What the claims speak of                                                *)
(***************************************************************************)
\* The thread an event belongs to: its thread_ts, else its own ts.
EventThread(p) == IF ev[p].thread_ts # NoThread THEN ev[p].thread_ts ELSE ev[p].ts

\* The calls of the shared path: the log without the gate's lookup.
Effects(p) == SelectSeq(log[p], LAMBDA c : c.op # "has")

Ops(calls) == [i \in 1..Len(calls) |-> calls[i].op]

AllOk(calls) == \A i \in 1..Len(calls) : calls[i].ok

CountOp(calls, op) == Cardinality({i \in 1..Len(calls) : calls[i].op = op})

\* The stored messages of thread t, oldest first.
StoredLog(t) ==
    LET idx == {i \in 1..Len(rows) : rows[i].thread_id = t}
        nth[k \in 1..Cardinality(idx)] ==
            CHOOSE i \in idx : Cardinality({j \in idx : j <= i}) = k
    IN [k \in 1..Cardinality(idx) |->
            [role |-> rows[nth[k]].role, content |-> rows[nth[k]].content]]

LastN(seq, n) == IF Len(seq) <= n THEN seq ELSE SubSeq(seq, Len(seq) - n + 1, Len(seq))

IsBlank(text) == \A i \in 1..Len(text) : text[i] = " "

\* The event went down the chat path with the given kind of user message.
ChatTurn(p) == parsed[p].command = "ollama" /\ ~IsBlank(parsed[p].user_message)
EmptyChat(p) == parsed[p].command = "ollama" /\ IsBlank(parsed[p].user_message)

\* The text the turn ends with, from what the gateway returned.
FinalText(p) ==
    IF IsBlank(ask[p].result.val) THEN OllamaFallback ELSE ask[p].result.val

(***************************************************************************)
(* C1: a chat event with a non-empty user message in which no step fails   *)
(* makes, in this order and once each: the append of {user, userMessage}   *)
(* to the thread, the read of the thread's history, the gateway call with  *)
(* that history, the append of {assistant, finalText} to the same thread,  *)
(* and the send of finalText to the same thread.                           *)
(***************************************************************************)
C1_TurnInOrder ==
    \A p \in Procs :
        (pc[p] = "done" /\ ChatTurn(p) /\ exc[p] = "none" /\ AllOk(log[p])) =>
            LET t == EventThread(p)
                um == parsed[p].user_message
                e == Effects(p)
                stored == StoredLog(t)
            IN /\ Ops(e) = <<"add", "hist", "ask", "add", "say">>
               /\ e[1] = Call("add", t, "user", um, TRUE)
               /\ e[2].thread = t
               /\ Len(stored) >= 2
               /\ history[p] = LastN(SubSeq(stored, 1, Len(stored) - 1), DefaultLimit)
               /\ history[p][Len(history[p])] = [role |-> "user", content |-> um]
               /\ ask[p].pc = "ret" /\ ask[p].messages = history[p]
               /\ Len(ask[p].requests) = 1
               /\ e[4] = Call("add", t, "assistant", FinalText(p), TRUE)
               /\ e[5] = Call("say", t, "", FinalText(p), TRUE)
               /\ stored[Len(stored)] = [role |-> "assistant", content |-> FinalText(p)]

\* A second turn of a thread, entered by a plain reply, has ended.
C1_Witness ==
    /\ pc[1] = "done" /\ entry[1] = "message" /\ ChatTurn(1)
    /\ exc[1] = "none" /\ AllOk(log[1])
    /\ Len(history[1]) = 3
    /\ Len(Effects(1)) = 5

(***************************************************************************)
(* C2 as stated: an empty or whitespace-only user message on the chat path *)
(* makes no addMessage call and no gateway call, leaves the store as it    *)
(* was, and exactly one reply is sent, the empty-message notice, to the    *)
(* event's thread.                                                         *)
(***************************************************************************)
C2_AsStated ==
    \A p \in Procs :
        (pc[p] = "done" /\ EmptyChat(p)) =>
            Effects(p) = <<Call("say", EventThread(p), "", EmptyNotice, TRUE)>>

(***************************************************************************)
(* C2 amended: an empty or whitespace-only user message on the chat path   *)
(* makes no addMessage call and no gateway call and leaves the store as it *)
(* was; the first reply attempted is the empty-message notice, to the      *)
(* event's thread, and it is the only reply when its send succeeds (when   *)
(* it raises, only error notices follow).                                  *)
(***************************************************************************)
C2_EmptyGuard ==
    /\ [](\A p \in Procs :
            (EmptyChat(p) /\ pc[p] # "process") =>
                LET e == Effects(p) IN
                /\ e # <<>>
                /\ e[1].op = "say" /\ e[1].text = EmptyNotice
                /\ e[1].thread = EventThread(p)
                /\ e[1].ok => Len(e) = 1
                /\ \A i \in 2..Len(e) :
                        e[i].op = "say" /\ e[i].text \in {ErrorNotice("SlackApiError"), SorryNotice}
                /\ ask[p] = NoAsk)
    /\ [][\A p \in Procs :
            (EmptyChat(p) /\ pc[p] # "idle") => (rows' = rows /\ nextId' = nextId)]_vars

\* The notice was delivered for a /ollama command with nothing after it,
\* in a thread that has stored rows.
C2_Witness ==
    /\ pc[1] = "done" /\ EmptyChat(1) /\ ev[1].text = cmd_ollama
    /\ entry[1] = "message"
    /\ Effects(1) = <<Call("say", ev[1].thread_ts, "", EmptyNotice, TRUE)>>

(***************************************************************************)
(* C3: a plain thread-reply event whose thread has no stored message       *)
(* changes nothing in the store, calls no gateway and sends no reply,      *)
(* whatever its text.                                                      *)
(***************************************************************************)
C3_NoHistoryIgnored ==
    [][\A p \in Procs :
        (/\ pc[p] = "idle" /\ entry'[p] = "message"
         /\ \A i \in 1..Len(rows) : rows[i].thread_id # ev'[p].thread_ts)
        => /\ pc'[p] = "done"
           /\ rows' = rows /\ nextId' = nextId
           /\ ask'[p] = NoAsk
           /\ \A i \in 1..Len(log'[p]) : log'[p][i].op = "has"]_vars

\* A /clear reply in a thread without rows, while another thread has rows,
\* was ignored.
C3_Witness ==
    /\ pc[1] = "done" /\ entry[1] = "message"
    /\ ev[1].thread_ts = "T1" /\ ev[1].text = cmd_clear \o <<" ", "x">>
    /\ ~ev[1].bot_id /\ ~ev[1].subtype
    /\ \A i \in 1..Len(rows) : rows[i].thread_id # "T1"
    /\ rows # <<>>
    /\ log[1] = <<Call("has", "T1", "", <<>>, TRUE)>>

(***************************************************************************)
(* C4: a plain thread-reply event is processed only if it carries neither  *)
(* bot_id nor subtype, carries thread_ts, its thread has stored history    *)
(* and its trimmed text is not empty; when one of these fails the handler  *)
(* exits with no reply, no store change and no gateway call.               *)
(***************************************************************************)
Eligible(e, rs) ==
    /\ ~e.bot_id /\ ~e.subtype
    /\ e.thread_ts # NoThread
    /\ \E i \in 1..Len(rs) : rs[i].thread_id = e.thread_ts
    /\ ~IsBlank(e.text)

C4_ReplyGate ==
    [][\A p \in Procs :
        (pc[p] = "idle" /\ entry'[p] = "message" /\ ~Eligible(ev'[p], rows))
        => /\ pc'[p] = "done"
           /\ parsed'[p] = NoParse
           /\ rows' = rows /\ nextId' = nextId
           /\ ask'[p] = NoAsk
           /\ \A i \in 1..Len(log'[p]) : log'[p][i].op = "has"]_vars

\* A whitespace-only reply in a thread with history was dropped, and
\* nothing was said.
C4_Witness ==
    /\ pc[1] = "done" /\ entry[1] = "message"
    /\ ev[1].text = <<" ">> /\ ~ev[1].bot_id /\ ~ev[1].subtype
    /\ \E i \in 1..Len(rows) : rows[i].thread_id = ev[1].thread_ts
    /\ log[1] = <<Call("has", ev[1].thread_ts, "", <<>>, TRUE)>>

(***************************************************************************)
(* C5 as stated: for the command clear or help (the store not failing)     *)
(* the orchestrator sends exactly one reply, to the event's thread,        *)
(* appends nothing, never calls the gateway, and stops.                    *)
(***************************************************************************)
Command(p) == parsed[p].command \in {"clear", "help"}

StoreFailed(p) ==
    \E i \in 1..Len(log[p]) : log[p][i].op \in {"clear", "add"} /\ ~log[p][i].ok

C5_AsStated ==
    \A p \in Procs :
        (pc[p] = "done" /\ Command(p) /\ ~StoreFailed(p)) =>
            /\ CountOp(log[p], "say") = 1
            /\ CountOp(log[p], "add") = 0
            /\ CountOp(log[p], "ask") = 0

(***************************************************************************)
(* C5 amended: for the command clear or help (the store not failing) the   *)
(* first reply attempted is the confirmation, or the help text, to the     *)
(* event's thread, and when its send succeeds it is the only reply and the *)
(* handler stops (when it raises, only error notices follow); no message   *)
(* is appended and the gateway is never called; for clear the thread's     *)
(* rows, and only they, are deleted before the reply is sent; for help     *)
(* the store is left as it was.                                            *)
(***************************************************************************)
C5_CommandReply ==
    /\ [](\A p \in Procs :
            (Command(p) /\ ~StoreFailed(p) /\ pc[p] # "process") =>
                LET e == Effects(p)
                    t == EventThread(p)
                    k == IF parsed[p].command = "clear" THEN 1 ELSE 0
                IN /\ Len(e) >= k
                   /\ k = 1 => e[1] = Call("clear", t, "", <<>>, TRUE)
                   /\ k = 1 => \A i \in 1..Len(rows) : rows[i].thread_id # t
                   /\ pc[p] = "say_cleared" => Len(e) = 1
                   /\ pc[p] # "say_cleared" =>
                        /\ Len(e) >= k + 1
                        /\ e[k + 1].op = "say" /\ e[k + 1].thread = t
                        /\ e[k + 1].text =
                             (IF k = 1 THEN ClearedNotice ELSE HelpMessage)
                        /\ e[k + 1].ok => (Len(e) = k + 1 /\ pc[p] = "done")
                        /\ \A i \in (k + 2)..Len(e) :
                             /\ e[i].op = "say"
                             /\ e[i].text \in {ErrorNotice("SlackApiError"), SorryNotice}
                   /\ ask[p] = NoAsk)
    /\ [][\A p \in Procs :
            (Command(p) /\ pc[p] # "idle") =>
                /\ nextId' = nextId
                /\ \/ rows' = rows
                   \/ /\ parsed[p].command = "clear" /\ pc[p] = "process"
                      /\ \A i \in 1..Len(rows') : rows'[i].thread_id # thread_ts[p]
                      /\ \E f \in [1..Len(rows') -> 1..Len(rows)] :
                            /\ \A i \in 1..Len(rows') : rows'[i] = rows[f[i]]
                            /\ \A i, j \in 1..Len(rows') : i < j => f[i] < f[j]
                            /\ \A j \in 1..Len(rows) :
                                  rows[j].thread_id # thread_ts[p] =>
                                      \E i \in 1..Len(rows') : f[i] = j]_vars

\* A /clear in a thread with rows, beside a thread that keeps its rows: the
\* confirmation was delivered.
C5_Witness ==
    /\ pc[1] = "done" /\ parsed[1].command = "clear"
    /\ rows # <<>>
    /\ Effects(1) = <<Call("clear", EventThread(1), "", <<>>, TRUE),
                      Call("say", EventThread(1), "", ClearedNotice, TRUE)>>

(***************************************************************************)
(* C6: an exception raised anywhere in the shared path (a store write, a   *)
(* clear, the gateway's value, a send) is caught: the handler attempts an  *)
(* error notice to the originating thread and returns; when the send of    *)
(* that notice fails, the failure goes no further than the entry point,    *)
(* which attempts its own notice and swallows a failure of that one too.   *)
(***************************************************************************)
HandlerPcs ==
    {"idle", "process", "say_cleared", "history", "query", "wait_llm",
     "add_assistant", "say_response", "except", "outer_except", "done"}

\* The call that raised: the first one that failed, if any.
FirstFailure(calls) ==
    LET f == {i \in 1..Len(calls) :
                calls[i].op \in {"add", "clear", "say"} /\ ~calls[i].ok}
    IN IF f = {} THEN 0 ELSE CHOOSE i \in f : \A j \in f : i <= j

C6_ExceptionsCaught ==
    \A p \in Procs :
        /\ pc[p] \in HandlerPcs
        /\ (exc[p] = "none") = (pc[p] \notin {"except", "outer_except"}
                                 /\ FirstFailure(log[p]) = 0
                                 /\ ~(pc[p] = "done" /\ ask[p].result.type = "list"))
        /\ (pc[p] = "done" /\ exc[p] # "none") =>
              LET n == Len(log[p])
                  k == FirstFailure(log[p])
                  t == EventThread(p)
                  \* where the notice is: right after the call that raised, or
                  \* after the gateway call whose value could not be used
                  r == IF k = 0 THEN n
                       ELSE IF exc[p] = "AttributeError" THEN k ELSE k + 1
              IN /\ r >= 1 /\ r <= n
                 /\ log[p][r].op = "say" /\ log[p][r].thread = t
                 /\ log[p][r].text = ErrorNotice(exc[p])
                 /\ IF log[p][r].ok
                    THEN r = n
                    ELSE /\ r = n - 1
                         /\ log[p][n].op = "say" /\ log[p][n].thread = t
                         /\ log[p][n].text = SorryNotice

\* The assistant row could not be written, and neither notice could be sent.
C6_Witness ==
    /\ pc[1] = "done" /\ exc[1] = "sqlite3.Error"
    /\ Len(log[1]) >= 2
    /\ log[1][Len(log[1])] = Call("say", EventThread(1), "", SorryNotice, FALSE)
    /\ \E i \in 1..Len(log[1]) : log[1][i].op = "add" /\ log[1][i].role = "assistant"

(***************************************************************************)
(* C7: ask never raises, and for every history, system prompt, model       *)
(* override and backend outcome it returns a string to its caller.         *)
(***************************************************************************)
C7_AskReturnsString ==
    \A p \in Procs : ask[p].pc = "ret" => ask[p].result.type = "str"

(***************************************************************************)
(* C8 as stated: after an ask invocation with a model override has         *)
(* returned, the gateway's model is the one it had before, and the request *)
(* of that invocation carried the override.                                *)
(***************************************************************************)
C8_AsStated ==
    \A p \in Procs :
        (ask[p].pc = "ret" /\ ask[p].model_name.some) =>
            /\ model = ask[p].original_model
            /\ Len(ask[p].requests) = 1
            /\ ask[p].requests[1].model = ask[p].model_name.v

(***************************************************************************)
(* C8 amended: in sequential use, after any ask invocation has returned    *)
(* (the backend call having succeeded, answered an error, or raised) the   *)
(* gateway's model is the one it had before the call, the default; the     *)
(* request of an invocation with a non-empty override carried the          *)
(* override, and the request of an invocation with no override, or with an *)
(* empty one, carried the default model.                                   *)
(***************************************************************************)
C8_ModelRestored ==
    /\ (\A p \in Procs : ask[p].pc \in {"idle", "set", "ret"}) => model = DefaultModel
    /\ \A p \in Procs :
          ask[p].pc \in {"restore", "ret"} =>
            /\ Len(ask[p].requests) = 1
            /\ ask[p].requests[1].model =
                 (IF ask[p].model_name.some /\ ask[p].model_name.v # <<>>
                  THEN ask[p].model_name.v ELSE DefaultModel)

\* An invocation with an override whose request timed out has returned.
C8_Witness ==
    /\ ask[1].pc = "ret" /\ ask[1].model_name = Some(<<"m">>)
    /\ ask[1].outcome.kind = "timeout"
    /\ ask[1].requests[1].model = <<"m">>
    /\ model = DefaultModel

(***************************************************************************)
(* C9: a timeout, a connection failure and an HTTP error each make ask     *)
(* return a non-empty string, and the strings of two different kinds       *)
(* differ.                                                                 *)
(***************************************************************************)
ErrorKind(o) ==
    IF o.kind = "response"
    THEN IF o.status \in {200, 201, 202} THEN "success" ELSE "http"
    ELSE o.kind

ErrorKinds == {"timeout", "connection", "http"}

C9_ErrorStrings ==
    \A p \in Procs :
        (ask[p].pc = "ret" /\ ErrorKind(ask[p].outcome) \in ErrorKinds) =>
            /\ ask[p].result.type = "str"
            /\ ~IsBlank(ask[p].result.val)
            /\ \A o \in AllOutcomes :
                  (ErrorKind(o) \in ErrorKinds /\ ErrorKind(o) # ErrorKind(ask[p].outcome))
                  => ChatResult(o) # ask[p].result

\* A request that timed out has been answered to the caller.
C9_Witness ==
    /\ ask[1].pc = "ret" /\ ask[1].outcome.kind = "timeout"
    /\ ask[1].result = PyStr(<<"Ollama request timed out">>)

(***************************************************************************)
(* C10: one ask invocation makes exactly one backend request, with         *)
(* stream = false, whatever its outcome, and a chat turn makes at most one *)
(* ask invocation: nothing is retried.                                     *)
(***************************************************************************)
C10_OneRequest ==
    \A p \in Procs :
        /\ Len(ask[p].requests) <= 1
        /\ \A i \in 1..Len(ask[p].requests) : ask[p].requests[i].stream = FALSE
        /\ ask[p].pc \in {"restore", "ret"} => Len(ask[p].requests) = 1
        /\ CountOp(log[p], "ask") <= 1
        /\ CountOp(log[p], "ask") = 0 => ask[p] = NoAsk
        /\ (pc[p] = "done" /\ ChatTurn(p) /\ CountOp(log[p], "ask") = 1) =>
              (ask[p].pc = "ret" /\ Len(ask[p].requests) = 1)

\* A turn whose request timed out has ended: one request, not streamed.
C10_Witness ==
    /\ pc[1] = "done" /\ ChatTurn(1)
    /\ ask[1].outcome.kind = "timeout"
    /\ Len(ask[1].requests) = 1 /\ ~ask[1].requests[1].stream


(***************************************************************************)
(* C11: after any sequence of add_message and clear_thread_history calls,  *)
(* a get_history(T, n) whose query succeeds returns exactly the last       *)
(* min(n, count(T)) messages of thread T, oldest first, and nothing of     *)
(* another thread; with the limit omitted n is 20.                         *)
(***************************************************************************)
C11_HistoryWindow ==
    \A p \in Procs :
        (ret[p].op = "hist" /\ ~ret[p].failed) =>
            LET T == ret[p].thread
                n == IF ret[p].limit.some THEN ret[p].limit.v ELSE 20
                all == StoredLog(T)
                count == Cardinality({i \in 1..Len(rows) : rows[i].thread_id = T})
                k == IF n < count THEN n ELSE count
                got == ret[p].messages
            IN /\ Len(got) = k
               /\ \A i \in 1..k : got[i] = all[count - k + i]

\* A read with limit 2 of a thread holding three rows, first a user message
\* and then two different ones: the two newest come back, oldest first.
C11_Witness ==
    \E p \in Procs :
        /\ ret[p].op = "hist" /\ ~ret[p].failed
        /\ ret[p].limit = Limit(2)
        /\ ret[p].count_before = 3
        /\ Len(ret[p].messages) = 2
        /\ ret[p].messages[1] # ret[p].messages[2]


\* The number of stored rows of thread t.
RowCount(t) == Cardinality({i \in 1..Len(rows) : rows[i].thread_id = t})

(***************************************************************************)
(* C12: clear_thread_history(T) under which storage does not fail never    *)
(* raises and leaves zero rows for T, whether T had rows, had none, or was *)
(* cleared by the call just before.                                        *)
(***************************************************************************)
C12_ClearIdempotent ==
    \A p \in Procs :
        (ret[p].op = "clear" /\ ~ret[p].failed) =>
            /\ ret[p].raised = "none"
            /\ RowCount(ret[p].thread) = 0

\* The second of two successive clears of the same thread, which the first
\* one had emptied, while the other thread keeps its row.
C12_Witness ==
    \E p \in Procs :
        /\ ret[p].op = "clear" /\ ~ret[p].failed
        /\ ret[p].prev = [op |-> "clear", thread |-> ret[p].thread, failed |-> FALSE]
        /\ ret[p].count_before = 0
        /\ \E t \in Threads : RowCount(t) > 0

(***************************************************************************)
(* C13: a has_thread_history(T) under which storage does not fail answers  *)
(* true exactly when some stored row has thread id T; so it answers true   *)
(* right after a successful add_message(T, ...) and false right after a    *)
(* successful clear_thread_history(T).                                     *)
(***************************************************************************)
C13_HasHistoryIffRows ==
    \A p \in Procs :
        (ret[p].op = "has" /\ ~ret[p].failed) =>
            LET T == ret[p].thread IN
            /\ ret[p].found <=> (RowCount(T) > 0)
            /\ ret[p].prev = [op |-> "add", thread |-> T, failed |-> FALSE]
                  => ret[p].found
            /\ ret[p].prev = [op |-> "clear", thread |-> T, failed |-> FALSE]
                  => ~ret[p].found

\* The check of a thread whose only row was just added, answered true.
C13_Witness ==
    \E p \in Procs :
        /\ ret[p].op = "has" /\ ~ret[p].failed
        /\ ret[p].prev = [op |-> "add", thread |-> ret[p].thread, failed |-> FALSE]
        /\ ret[p].count_before = 1
        /\ ret[p].found


\* The positions in the log of p where a row was stored.
Stored(p, role) ==
    {i \in 1..Len(log[p]) :
        log[p][i].op = "add" /\ log[p][i].role = role /\ log[p][i].ok}

\* The positions in the log of p where the gateway was called.
Asked(p) == {i \in 1..Len(log[p]) : log[p][i].op = "ask"}

(***************************************************************************)
(* C14, as stated: no row of a turn, user or assistant, is stored before   *)
(* the gateway has returned for that turn.                                 *)
(***************************************************************************)
C14_AsStated ==
    \A p \in Procs :
        (Stored(p, "user") \cup Stored(p, "assistant")) # {} => ask[p].pc = "ret"

(***************************************************************************)
(* C14: the assistant row of a turn is stored only after the gateway has   *)
(* returned for that turn, and holds a text that is not blank; the user    *)
(* row is stored before the gateway is called, and the gateway is called   *)
(* only once it is stored.                                                 *)
(***************************************************************************)
C14_AssistantAfterReply ==
    \A p \in Procs :
        /\ \A i \in 1..Len(log[p]) :
              (log[p][i].op = "add" /\ log[p][i].role = "assistant") =>
                  /\ ask[p].pc = "ret"
                  /\ ~IsBlank(log[p][i].text)
                  /\ \E j \in Asked(p) : j < i
        /\ \A j \in Asked(p) : \E k \in Stored(p, "user") : k < j
        /\ (Stored(p, "user") # {} /\ pc[p] \in {"history", "query"}) =>
              ask[p].pc = "idle"

\* A turn whose assistant row is stored, after the gateway returned.
C14_Witness ==
    \E p \in Procs :
        /\ Stored(p, "assistant") # {}
        /\ Stored(p, "user") # {}
        /\ ask[p].pc = "ret"


\* The gateway returned a str that is empty or only whitespace.
BlankReply(p) ==
    ask[p].pc = "ret" /\ ask[p].result.type = "str" /\ IsBlank(ask[p].result.val)

(***************************************************************************)
(* C15: when the gateway returns an empty or whitespace-only text, the     *)
(* assistant content appended to the store is the fixed fallback notice,   *)
(* and in every turn the appended assistant content is not blank and the   *)
(* reply sent after a successful append carries the identical text.        *)
(***************************************************************************)
C15_FallbackSubstituted ==
    \A p \in Procs :
        \A i \in 1..Len(log[p]) :
            (log[p][i].op = "add" /\ log[p][i].role = "assistant") =>
                /\ ~IsBlank(log[p][i].text)
                /\ BlankReply(p) => log[p][i].text = OllamaFallback
                /\ (log[p][i].ok /\ i < Len(log[p])) =>
                      /\ log[p][i + 1].op = "say"
                      /\ log[p][i + 1].text = log[p][i].text
                      /\ log[p][i + 1].thread = log[p][i].thread

\* The gateway returned the empty string; the fallback was stored and sent.
C15_Witness ==
    \E p \in Procs :
        /\ BlankReply(p) /\ ask[p].result.val = <<>>
        /\ pc[p] = "done"
        /\ \E i \in Stored(p, "assistant") :
              /\ i < Len(log[p])
              /\ log[p][i + 1].op = "say" /\ log[p][i + 1].ok
              /\ log[p][i + 1].text = OllamaFallback


(***************************************************************************)
(* What the parser claims speak of                                         *)
(***************************************************************************)
\* The text a parser works on: the event text without mentions (mention
\* path) and trimmed.
CleanText(p) ==
    IF entry[p] = "mention" THEN clean_mention_text(ev[p].text) ELSE Strip(ev[p].text)

\* A parser has been applied to the text of p's event.
WasParsed(p) == entry[p] # "none" /\ parsed[p] # NoParse

\* The work on p's event is over: the parser has returned (a direct call) or
\* the handler has come to its end.
Settled(p) == pc[p] \in {"idle", "done"}

\* The text left when the parser's two directive steps are done.
Residual(p) ==
    ExtractDirective(ExtractDirective(CleanText(p), system_kw).text, model_kw).text

Begins(r, w) == Len(r) >= Len(w) /\ \A i \in 1..Len(w) : r[i] = w[i]

\* The double quotes of x, and the number of them up to position i.
Quotes(x) == {i \in 1..Len(x) : x[i] = QUOTE}
QuotesUpTo(x, i) == Cardinality({j \in Quotes(x) : j <= i})

\* The keyword (opening quote included) ends at position q of x.
EndsAt(x, kw, q) ==
    q >= Len(kw) /\ \A i \in 1..Len(kw) : x[q - Len(kw) + i] = kw[i]

\* The opening quotes of x: the first, third, ... quote.
Opening(x) == {q \in Quotes(x) : QuotesUpTo(x, q) % 2 = 1}

\* The quote that closes the opening quote q.
Closing(x, q) == CHOOSE c \in Quotes(x) : c > q /\ QuotesUpTo(x, c) = QuotesUpTo(x, q) + 1

\* x is free text with well-delimited directives in it: the quotes pair up
\* and every opening quote is the one of a directive keyword.
WellDelimited(x) ==
    /\ Cardinality(Quotes(x)) % 2 = 0
    /\ \A q \in Opening(x) : EndsAt(x, system_kw, q) \/ EndsAt(x, model_kw, q)

\* The directives of kind kw in a well-delimited x, by their opening quotes.
DirectivesOf(x, kw) == {q \in Opening(x) : EndsAt(x, kw, q)}

Content(x, q) == SubSeq(x, q + 1, Closing(x, q) - 1)

\* The directives of a well-delimited x, each as <<first, last>> position:
\* from the keyword's first character to the closing quote.
DirectiveSpans(x) ==
    {<<q + 1 - (IF EndsAt(x, system_kw, q) THEN Len(system_kw) ELSE Len(model_kw)),
       Closing(x, q)>> : q \in Opening(x)}

\* The characters of x from position i on that lie in none of the spans.
RECURSIVE OutsideFrom(_, _, _)
OutsideFrom(x, spans, i) ==
    IF i > Len(x) THEN <<>>
    ELSE (IF \E sp \in spans : sp[1] <= i /\ i <= sp[2] THEN <<>> ELSE <<x[i]>>)
         \o OutsideFrom(x, spans, i + 1)

\* x without its directives.
Outside(x) == OutsideFrom(x, DirectiveSpans(x), 1)

SlashCommands == {cmd_ollama, cmd_clear, cmd_help}

(***************************************************************************)
(* C17: the text left after directive removal decides the command by its   *)
(* prefix: /ollama gives chat with the trimmed remainder as user message,  *)
(* else /clear gives clear and /help gives help, both with an empty user   *)
(* message whatever follows, else chat with the whole text.                *)
(***************************************************************************)
C17_CommandByPrefix ==
    \A p \in Procs :
        WasParsed(p) =>
            LET r == Residual(p)
                c == parsed[p].command
                um == parsed[p].user_message
            IN IF Begins(r, cmd_ollama)
               THEN c = "ollama" /\ um = Strip(SubSeq(r, Len(cmd_ollama) + 1, Len(r)))
               ELSE IF Begins(r, cmd_clear) THEN c = "clear" /\ um = <<>>
               ELSE IF Begins(r, cmd_help) THEN c = "help" /\ um = <<>>
               ELSE c = "ollama" /\ um = r

\* /clear followed by more text, after a directive was removed.
C17_Witness ==
    \E p \in Procs :
        /\ WasParsed(p)
        /\ parsed[p].command = "clear" /\ parsed[p].user_message = <<>>
        /\ Len(Strip(Residual(p))) > Len(cmd_clear)
        /\ parsed[p].system_prompt # NONE

(***************************************************************************)
(* C18: when a slash command stands inside the quoted content of a         *)
(* directive of a well-delimited text, the directive's field holds that    *)
(* content and the command and user message are those of the text without  *)
(* its directives; unless that text itself begins with /clear, nothing is  *)
(* deleted from the store in the handling of the event.                    *)
(***************************************************************************)
C18_QuotedCommandIgnored ==
    \A p \in Procs :
        LET x == CleanText(p) IN
        (/\ WasParsed(p) /\ Settled(p)
         /\ WellDelimited(x)
         /\ \E q \in Opening(x) : \E w \in SlashCommands : Begins(Content(x, q), w)) =>
            LET out == ClassifyCommand(Strip(Outside(x))) IN
            /\ parsed[p].command = out.command
            /\ parsed[p].user_message = out.user_message
            /\ \A q \in DirectivesOf(x, system_kw) : parsed[p].system_prompt.some
            /\ \A q \in DirectivesOf(x, model_kw) : parsed[p].model_name.some
            /\ out.command # "clear" =>
                  \A i \in 1..Len(log[p]) : log[p][i].op # "clear"

\* The event whose system prompt is /clear has gone through as a chat turn
\* with user message hi: the thread's rows are there, with one more.
C18_Witness ==
    \E p \in Procs :
        /\ pc[p] = "done"
        /\ parsed[p].system_prompt = Some(cmd_clear)
        /\ parsed[p].command = "ollama" /\ parsed[p].user_message = Hi
        /\ Stored(p, "user") # {} /\ Stored(p, "assistant") # {}
        /\ RowCount(thread_ts[p]) > 2


\* No directive of kind kw is written in x: nowhere does the keyword stand
\* with a closing quote after it.
Absent(x, kw) ==
    ~\E q \in Quotes(x) : EndsAt(x, kw, q) /\ \E c \in Quotes(x) : c > q

(***************************************************************************)
(* C16, as stated: a text holding one system directive and one model       *)
(* directive, in either order and anywhere, gives both contents as the two *)
(* fields, and the command and user message of the text without the two    *)
(* directives; a directive that is absent from the text leaves its field   *)
(* null.                                                                   *)
(***************************************************************************)
C16_AsStated ==
    \A p \in Procs :
        WasParsed(p) =>
            LET x == CleanText(p) IN
            /\ (/\ WellDelimited(x)
                /\ Cardinality(DirectivesOf(x, system_kw)) = 1
                /\ Cardinality(DirectivesOf(x, model_kw)) = 1) =>
                  LET qs == CHOOSE q \in DirectivesOf(x, system_kw) : TRUE
                      qm == CHOOSE q \in DirectivesOf(x, model_kw) : TRUE
                      out == ClassifyCommand(Strip(Outside(x)))
                  IN /\ parsed[p].system_prompt = Some(Content(x, qs))
                     /\ parsed[p].model_name = Some(Content(x, qm))
                     /\ parsed[p].command = out.command
                     /\ parsed[p].user_message = out.user_message
            /\ Absent(x, system_kw) => parsed[p].system_prompt = NONE
            /\ Absent(x, model_kw) => parsed[p].model_name = NONE

\* The text a caller rebuilds from a parse result: the command's prefix and
\* the user message, no directive.
Reconstruct(r) ==
    LET prefix == CASE r.command = "clear" -> cmd_clear
                    [] r.command = "help" -> cmd_help
                    [] OTHER -> cmd_ollama
    IN IF r.user_message = <<>> THEN prefix ELSE prefix \o <<" ">> \o r.user_message

\* The parser that was applied to p's event, applied to another text.
Reparse(p, text) ==
    IF entry[p] = "mention" THEN parse_command_and_message(text)
    ELSE parse_thread_message(text)

(***************************************************************************)
(* C19, as stated: parsing the text rebuilt from a parse result gives the  *)
(* same command and user message and no directive, and the text left after *)
(* the directive steps holds no directive.                                 *)
(***************************************************************************)
C19_AsStated ==
    \A p \in Procs :
        WasParsed(p) =>
            LET again == Reparse(p, Reconstruct(parsed[p])) IN
            /\ again.command = parsed[p].command
            /\ again.user_message = parsed[p].user_message
            /\ again.system_prompt = NONE
            /\ again.model_name = NONE
            /\ Absent(Residual(p), system_kw)
            /\ Absent(Residual(p), model_kw)

\* x with the first directive of kind kw cut out, trimmed.
ExciseFirst(x, kw) ==
    IF DirectivesOf(x, kw) = {} THEN x
    ELSE LET q == Min(DirectivesOf(x, kw)) IN
         Strip(SubSeq(x, 1, q - Len(kw)) \o SubSeq(x, Closing(x, q) + 1, Len(x)))

(***************************************************************************)
(* C20, as stated: of several directives of one kind in a well-delimited   *)
(* text, the field holds the content of the first, and only the first is   *)
(* cut from the text: the command and user message are those of the text   *)
(* with the later ones still in it.                                        *)
(***************************************************************************)
C20_AsStated ==
    \A p \in Procs :
        LET x == CleanText(p) IN
        (/\ WasParsed(p)
         /\ WellDelimited(x)
         /\ \/ Cardinality(DirectivesOf(x, system_kw)) > 1
            \/ Cardinality(DirectivesOf(x, model_kw)) > 1) =>
            LET out == ClassifyCommand(ExciseFirst(ExciseFirst(x, system_kw), model_kw))
            IN /\ DirectivesOf(x, system_kw) # {} =>
                    parsed[p].system_prompt = Some(Content(x, Min(DirectivesOf(x, system_kw))))
               /\ DirectivesOf(x, model_kw) # {} =>
                    parsed[p].model_name = Some(Content(x, Min(DirectivesOf(x, model_kw))))
               /\ parsed[p].command = out.command
               /\ parsed[p].user_message = out.user_message


\* Mention markup stands somewhere in s.
HasMention(s) == \E i \in 1..Len(s) : MentionAt(s, i)

(***************************************************************************)
(* C21, as stated: for every text the mention path and the thread-reply    *)
(* path give the same command, user message, system prompt and model       *)
(* override, and the user message holds no mention markup.                 *)
(***************************************************************************)
C21_AsStated ==
    \A p \in Procs :
        WasParsed(p) =>
            /\ parse_command_and_message(ev[p].text) = parse_thread_message(ev[p].text)
            /\ ~HasMention(parsed[p].user_message)


(***************************************************************************)
(* C22: in the handling of a mention event every store call and every      *)
(* reply goes to the event's thread_ts if it has one, else to the event's  *)
(* own ts, and the rows written are stored under that id; a plain reply    *)
(* that carries a thread_ts, is no bot message and has text is turned away *)
(* only when no row is stored under its thread_ts.                         *)
(***************************************************************************)
C22_MentionThreadId ==
    \A p \in Procs :
        /\ entry[p] = "mention" =>
              LET T == IF ev[p].thread_ts # NoThread THEN ev[p].thread_ts ELSE ev[p].ts
              IN /\ \A i \in 1..Len(log[p]) : log[p][i].thread = T
                 /\ \A i \in Stored(p, "user") \cup Stored(p, "assistant") :
                       \E k \in 1..Len(rows) :
                           /\ rows[k].thread_id = T
                           /\ rows[k].role = log[p][i].role
                           /\ rows[k].content = log[p][i].text
        /\ (/\ entry[p] = "message" /\ pc[p] = "done" /\ parsed[p] = NoParse
            /\ ~ev[p].bot_id /\ ~ev[p].subtype /\ ev[p].thread_ts # NoThread
            /\ ~IsBlank(ev[p].text)
            /\ AllOk(log[p])) =>
              RowCount(ev[p].thread_ts) = 0

\* A mention outside any thread has been answered: the turn's two rows are
\* stored under the event's own ts and the reply went there.
C22_Witness ==
    \E p \in Procs :
        /\ entry[p] = "mention" /\ pc[p] = "done"
        /\ ev[p].thread_ts = NoThread
        /\ Stored(p, "user") # {} /\ Stored(p, "assistant") # {}
        /\ RowCount(ev[p].ts) >= 2
        /\ log[p][Len(log[p])].op = "say" /\ log[p][Len(log[p])].ok
        /\ log[p][Len(log[p])].thread = ev[p].ts


\* ask has returned, after a response with a status of handle_api_response's
\* success codes 200, 201, 202.
Answered(p) ==
    /\ ask[p].pc = "ret"
    /\ ask[p].outcome.kind = "response"
    /\ ask[p].outcome.status \in {200, 201, 202}

\* str(result) of a payload
RawPayload(body) ==
    CASE body = "no_content" -> <<"{'message': {}}">>
      [] body = "no_message" -> <<"{'error': 'x'}">>
      [] body = "message_text" -> <<"{'message': 'x'}">>
      [] OTHER -> <<"?">>

\* The payloads without message.content
LacksContent == {"no_content", "no_message", "message_text"}

Responded(p) == ask[p].pc = "ret" /\ ask[p].outcome.kind = "response"

\* The value is the description of an HTTP error.
HttpErrorText(r) ==
    r.type = "str" /\ Len(r.val) = 2 /\ r.val[1] = "Ollama error occurred: "

(***************************************************************************)
(* C24, as stated: every response with a status from 200 to 299 is taken   *)
(* as a success, its payload returned or stringified, and every other      *)
(* response is turned into the description of an error.                    *)
(***************************************************************************)
C24_AsStated ==
    \A p \in Procs :
        Responded(p) =>
            LET st == ask[p].outcome.status IN
            IF 200 <= st /\ st <= 299
            THEN ~HttpErrorText(ask[p].result)
            ELSE HttpErrorText(ask[p].result)

(***************************************************************************)
(* C24: a response with status 200, 201 or 202 is taken as a success: its  *)
(* payload is returned or stringified and no error is described; every     *)
(* other response, a 2xx such as 204 included, is turned into the          *)
(* non-empty description of an HTTP error, returned as a str.              *)
(***************************************************************************)
C24_SuccessCodes ==
    \A p \in Procs :
        Responded(p) =>
            LET st == ask[p].outcome.status IN
            IF st \in {200, 201, 202}
            THEN /\ ~HttpErrorText(ask[p].result)
                 /\ ask[p].outcome.body = "no_message" =>
                       ask[p].result = PyStr(RawPayload("no_message"))
            ELSE /\ HttpErrorText(ask[p].result)
                 /\ ask[p].result.val[2] \in {"204", "302", "205", "None"}

\* A 204 answer came back as the description of an error.
C24_Witness ==
    \E p \in Procs :
        /\ Responded(p) /\ ask[p].outcome.status = 204
        /\ ask[p].result = PyStr(<<"Ollama error occurred: ", "204">>)


\* The rows of thread t in the table rs, oldest first, as they are stored.
RowsOf(rs, t) ==
    LET idx == {i \in 1..Len(rs) : rs[i].thread_id = t}
        nth[k \in 1..Cardinality(idx)] ==
            CHOOSE i \in idx : Cardinality({m \in idx : m <= i}) = k
    IN [k \in 1..Cardinality(idx) |-> rs[nth[k]]]

(***************************************************************************)
(* C26: in every step of the store, the rows of a thread (id, thread id,   *)
(* role and content, in order) stay as they are, unless the step is an     *)
(* add_message to that thread, which puts one row after them, or a         *)
(* clear_thread_history of that thread, which leaves none of them.         *)
(***************************************************************************)
C26_ImmutableIsolated ==
    [][\A t \in Threads :
          LET old == RowsOf(rows, t)
              new == RowsOf(rows', t)
          IN \/ new = old
             \/ \E p \in Procs :
                   /\ ret'[p].op = "add" /\ ret'[p].thread = t
                   /\ Len(new) = Len(old) + 1
                   /\ SubSeq(new, 1, Len(old)) = old
             \/ \E p \in Procs :
                   /\ ret'[p].op = "clear" /\ ret'[p].thread = t
                   /\ new = <<>>]_vars

\* A thread of two rows has been cleared while the other thread keeps its row.
C26_Witness ==
    \E p \in Procs :
        /\ ret[p].op = "clear" /\ ~ret[p].failed
        /\ ret[p].count_before = 2
        /\ RowCount(ret[p].thread) = 0
        /\ \E t \in Threads : RowCount(t) = 1


(***************************************************************************)
(* C27: the ids of the stored rows rise strictly in the order the rows     *)
(* were written, across all threads, and stay below the id the next row    *)
(* will get; that id never goes down, and a row that a step adds gets an   *)
(* id at least as high, so above every id given before, also when the rows *)
(* with the highest ids have been deleted.                                 *)
(***************************************************************************)
C27_IdsNeverReused ==
    /\ [](/\ \A i, k \in 1..Len(rows) : i < k => rows[i].id < rows[k].id
          /\ \A i \in 1..Len(rows) : rows[i].id < nextId)
    /\ [][/\ nextId' >= nextId
          /\ \A k \in 1..Len(rows') :
                (\A i \in 1..Len(rows) : rows[i] # rows'[k]) => rows'[k].id >= nextId]_vars

\* Two rows were written and deleted; the row written next has id 3.
C27_Witness ==
    \E p \in Procs :
        /\ ret[p].op = "add" /\ ~ret[p].failed
        /\ ret[p].prev.op = "clear" /\ ~ret[p].prev.failed
        /\ Len(rows) = 1 /\ rows[1].id = 3


(***************************************************************************)
(* C29 as stated: the request of an invocation that was given a system     *)
(* prompt carries one system entry with that prompt, then the history.     *)
(***************************************************************************)
SystemEntry(system_prompt) == [role |-> "system", content |-> system_prompt.v]

C29_AsStated ==
    \A p \in Procs :
        (ask[p].pc = "ret" /\ ask[p].system_prompt.some) =>
            /\ Len(ask[p].requests) = 1
            /\ ask[p].requests[1].messages =
                 <<SystemEntry(ask[p].system_prompt)>> \o ask[p].messages

(***************************************************************************)
(* C29 amended: the request of an invocation with a non-empty system       *)
(* prompt carries exactly one system entry with that prompt followed by    *)
(* the supplied history in its order; the request of an invocation with no *)
(* system prompt, or with an empty one, carries the supplied history; and  *)
(* no step of an invocation changes the caller's history.                  *)
(***************************************************************************)
C29_SystemEntryPrepended ==
    /\ [](\A p \in Procs :
            ask[p].pc \in {"restore", "ret"} =>
              /\ Len(ask[p].requests) = 1
              /\ ask[p].requests[1].messages =
                   (IF ask[p].system_prompt.some /\ ask[p].system_prompt.v # <<>>
                    THEN <<SystemEntry(ask[p].system_prompt)>> \o ask[p].messages
                    ELSE ask[p].messages))
    /\ [][\A p \in Procs :
            ask[p].pc \in {"set", "chat", "restore"} =>
              ask'[p].messages = ask[p].messages]_vars

\* An invocation with a system prompt and a history of two has returned.
C29_Witness ==
    /\ ask[1].pc = "ret" /\ ask[1].system_prompt = Some(<<"s">>)
    /\ Len(ask[1].messages) = 2
    /\ Len(ask[1].requests[1].messages) = 3
    /\ ask[1].requests[1].messages[1] = [role |-> "system", content |-> <<"s">>]


(***************************************************************************)
(* C30: a directive holds for its turn only.  The store holds user and     *)
(* assistant rows only; a turn writes at most one user row, which holds    *)
(* the user message left once the directives are taken out, and at most    *)
(* one assistant row, which holds the reply; and a turn whose text carries *)
(* no directive calls the gateway with no system prompt and no override:   *)
(* neither the history it passes nor the request sent has a system entry,  *)
(* and the request names the default model, whatever the turns before it   *)
(* in the thread carried.                                                  *)
(***************************************************************************)
NoDirective(p) == parsed[p].system_prompt = NONE /\ parsed[p].model_name = NONE

NoSystemEntry(messages) == \A k \in 1..Len(messages) : messages[k].role # "system"

C30_DirectivesOneTurn ==
    /\ \A i \in 1..Len(rows) : rows[i].role \in {"user", "assistant"}
    /\ \A p \in Procs :
          /\ \A i \in Stored(p, "user") : log[p][i].text = parsed[p].user_message
          /\ \A i \in Stored(p, "assistant") : log[p][i].text = response[p]
          /\ Cardinality(Stored(p, "user")) <= 1
          /\ Cardinality(Stored(p, "assistant")) <= 1
          /\ (Asked(p) # {} /\ NoDirective(p)) =>
                /\ ask[p].system_prompt = NONE /\ ask[p].model_name = NONE
                /\ NoSystemEntry(ask[p].messages)
                /\ \A r \in 1..Len(ask[p].requests) :
                      /\ ask[p].requests[r].model = DefaultModel
                      /\ NoSystemEntry(ask[p].requests[r].messages)

\* The thread holds the two rows that the turn with the text
\* system:"/clear" model:"m" hi leaves, user hi and its reply; the turn after
\* it in the thread, with no directive, has had its answer from the gateway.
C30_Witness ==
    \E p \in Procs :
        /\ NoDirective(p) /\ ask[p].pc = "ret" /\ pc[p] = "wait_llm"
        /\ Len(ask[p].requests) = 1
        /\ Len(ask[p].messages) = 3
        /\ ask[p].messages[1] = [role |-> "user", content |-> Hi]
        /\ ask[p].messages[2].role = "assistant"
        /\ ask[p].requests[1].model = DefaultModel


(***************************************************************************)
(* C25: a write to the store that fails, add_message or                    *)
(* clear_thread_history, raises sqlite3.Error into the handler, which      *)
(* makes no further call for the event but the error notice (and, should   *)
(* the notice not go out, the second notice); a read that fails raises     *)
(* nothing: get_history gives the empty list, to the orchestrator, which   *)
(* goes on to the gateway, as to a direct caller, has_thread_history gives *)
(* False, get_statistics the empty result and get_all_threads the empty    *)
(* list; and no call that fails changes the rows.                          *)
(***************************************************************************)
WriteFailed(c) == c.op \in {"add", "clear"} /\ ~c.ok

ReadFailed(c) == c.op = "hist" /\ ~c.ok

\* A call failed in this step: the handler of p logged it, or the direct
\* call of p returned from it.
FailedNow(p) ==
    \/ /\ Len(log'[p]) = Len(log[p]) + 1
       /\ LET c == log'[p][Len(log'[p])] IN WriteFailed(c) \/ ReadFailed(c)
    \/ /\ ret'[p] # ret[p]
       /\ ret'[p].failed

C25_StorageFailures ==
    /\ [](\A p \in Procs :
            /\ \A i \in 1..Len(log[p]) :
                  WriteFailed(log[p][i]) =>
                    /\ exc[p] = "sqlite3.Error"
                    /\ pc[p] \in {"except", "outer_except", "done"}
                    /\ \A k \in 1..Len(log[p]) : k > i => log[p][k].op = "say"
                    /\ i < Len(log[p]) =>
                          /\ log[p][i + 1].thread = log[p][i].thread
                          /\ log[p][i + 1].text = ErrorNotice("sqlite3.Error")
                    /\ pc[p] = "done" => i < Len(log[p])
            /\ \A i \in 1..Len(log[p]) :
                  ReadFailed(log[p][i]) =>
                    /\ history[p] = <<>>
                    /\ pc[p] # "history"
                    /\ i = Len(log[p]) => (pc[p] = "query" /\ exc[p] = "none")
                    /\ i < Len(log[p]) => log[p][i + 1].op = "ask"
            /\ (ret[p].failed /\ ret[p].op \in {"hist", "has", "stats", "threads"}) =>
                  /\ ret[p].raised = "none"
                  /\ ret[p].messages = <<>>
                  /\ ret[p].found = FALSE
                  /\ ret[p].stats = EmptyStats
                  /\ ret[p].threads = <<>>)
    /\ [][\A p \in Procs : FailedNow(p) => rows' = rows]_vars

\* A clear of a thread with two rows failed: the rows are there, and the
\* error notice went out.
C25_Witness ==
    \E p \in Procs :
        /\ pc[p] = "done" /\ Len(log[p]) = 2
        /\ log[p][1] = Call("clear", thread_ts[p], "", <<>>, FALSE)
        /\ log[p][2] = Call("say", thread_ts[p], "", ErrorNotice("sqlite3.Error"), TRUE)
        /\ RowCount(thread_ts[p]) = 2


(***************************************************************************)
(* C28 as stated: whatever table the program finds, _init_database returns *)
(* without raising and leaves a table with the column created_at and the   *)
(* rows it found; run again, it changes nothing.                           *)
(***************************************************************************)
C28_AsStated ==
    /\ [](\A p \in Procs :
            ret[p].op = "init" =>
              /\ ret[p].raised = "none"
              /\ "created_at" \in columns
              /\ Len(rows) = ret[p].count_before)
    /\ [][\A p \in Procs :
            ret'[p].op = "init" =>
              /\ rows' = rows
              /\ ret[p].op = "init" => columns' = columns]_vars


(***************************************************************************)
(* C34 as stated: whenever the gateway has been called for a turn, the     *)
(* history passed to it is not empty, has at most 20 entries and ends with *)
(* the user message of the turn.                                           *)
(***************************************************************************)
EndsWithUserMessage(p, h) ==
    /\ Len(h) >= 1 /\ Len(h) <= DefaultLimit
    /\ h[Len(h)] = [role |-> "user", content |-> parsed[p].user_message]

C34_AsStated ==
    \A p \in Procs : Asked(p) # {} => EndsWithUserMessage(p, ask[p].messages)

(***************************************************************************)
(* C34 amended: whenever the gateway has been called for a turn whose read *)
(* of the history succeeded, the history passed to it is not empty, has at *)
(* most 20 entries and ends with the user message of the turn; when the    *)
(* read failed the gateway has been called all the same, with the empty    *)
(* history.  Events are handled one at a time.                             *)
(***************************************************************************)
HistoryRead(p) == {i \in 1..Len(log[p]) : log[p][i].op = "hist"}

C34_HistoryPassed ==
    \A p \in Procs :
        Asked(p) # {} =>
            /\ ask[p].messages = history[p]
            /\ \E i \in HistoryRead(p) :
                  /\ \A k \in Asked(p) : i < k
                  /\ IF log[p][i].ok
                     THEN EndsWithUserMessage(p, ask[p].messages)
                     ELSE ask[p].messages = <<>>

\* The second turn of a thread has called the gateway with three messages.
C34_Witness ==
    \E p \in Procs :
        /\ Asked(p) # {} /\ Len(ask[p].messages) = 3
        /\ ask[p].messages[3] = [role |-> "user", content |-> parsed[p].user_message]
        /\ ask[p].messages[2].role = "assistant"


(***************************************************************************)
(* C35: for one event, whatever fails, at most one send succeeds, and a    *)
(* send that succeeded is the last call made for the event, so no error    *)
(* notice follows a delivered reply, confirmation or empty-message notice; *)
(* an error notice is attempted only once an exception is being handled,   *)
(* after a call that failed or a gateway value that could not be used.     *)
(***************************************************************************)
Says(p) == {i \in 1..Len(log[p]) : log[p][i].op = "say"}

IsErrorNotice(text) ==
    \/ text = SorryNotice
    \/ \E e \in {"sqlite3.Error", "SlackApiError", "AttributeError"} : text = ErrorNotice(e)

C35_OneReplyDelivered ==
    \A p \in Procs :
        /\ Cardinality({i \in Says(p) : log[p][i].ok}) <= 1
        /\ \A i \in Says(p) : log[p][i].ok => i = Len(log[p])
        /\ \A i \in Says(p) :
              IsErrorNotice(log[p][i].text) =>
                /\ exc[p] # "none"
                /\ \/ \E k \in 1..(i - 1) : ~log[p][k].ok /\ log[p][k].op # "hist"
                   \/ exc[p] = "AttributeError" /\ Asked(p) # {}

\* Both rows of the turn were stored, the send of the reply failed, and the
\* error notice was delivered.
C35_Witness ==
    \E p \in Procs :
        /\ pc[p] = "done" /\ Len(Effects(p)) = 6
        /\ Effects(p)[5] = Call("say", thread_ts[p], "", response[p], FALSE)
        /\ Effects(p)[6] = Call("say", thread_ts[p], "", ErrorNotice("SlackApiError"), TRUE)
        /\ Stored(p, "assistant") # {}


(***************************************************************************)
(* C36: in every reachable state every stored row has the role user or     *)
(* assistant and a content that has a character other than whitespace.     *)
(***************************************************************************)
C36_RowsWellFormed ==
    \A i \in 1..Len(rows) :
        /\ rows[i].role \in {"user", "assistant"}
        /\ rows[i].content # <<>>
        /\ Strip(rows[i].content) # <<>>

\* The gateway's reply was blank: the row of the assistant holds the
\* fallback text.
C36_Witness ==
    \E i \in 1..Len(rows) :
        /\ rows[i].role = "assistant" /\ rows[i].content = OllamaFallback
        /\ i > 1 /\ rows[i - 1].role = "user"


(***************************************************************************)
(* C37 as stated: with events handled one at a time, an event in which no  *)
(* call of the store failed, begun on a thread whose stored log was empty  *)
(* or alternated user, assistant, ..., user, assistant, ends with the      *)
(* thread's log empty or alternating in that way; and when the event is a  *)
(* chat turn it has added exactly two rows to the thread, whatever the     *)
(* backend answered.                                                       *)
(***************************************************************************)
Alternates(msgs) ==
    /\ Len(msgs) % 2 = 0
    /\ \A k \in 1..Len(msgs) :
          msgs[k].role = (IF k % 2 = 1 THEN "user" ELSE "assistant")

NoStorageFailure(calls) ==
    \A i \in 1..Len(calls) :
        calls[i].op \in {"add", "clear", "hist", "has"} => calls[i].ok

\* The rows the event of p has added to its thread.
AddedRows(p) == Cardinality(Stored(p, "user") \cup Stored(p, "assistant"))

\* The thread's log as it was when the event of p began, for an event that
\* cleared nothing.
LogBefore(p) ==
    LET after == StoredLog(thread_ts[p]) IN
    SubSeq(after, 1, Len(after) - AddedRows(p))

C37_AsStated ==
    \A p \in Procs :
        (/\ pc[p] = "done" /\ NoStorageFailure(log[p])
         /\ parsed[p].command # "clear"
         /\ Alternates(LogBefore(p))) =>
            /\ Alternates(StoredLog(thread_ts[p]))
            /\ ChatTurn(p) => AddedRows(p) = 2


(***************************************************************************)
(* C38: when the write of the assistant row fails after the gateway has    *)
(* returned, the thread's log ends with the user row of the turn, no       *)
(* assistant row of the turn is stored, the reply is not sent and every    *)
(* call after the failed one is the send of an error notice; when it is    *)
(* the send of the reply that fails, the thread's log ends with the user   *)
(* row and the assistant row of the turn, no send of a text other than an  *)
(* error notice has succeeded, and every call after the failed one is the  *)
(* send of an error notice.                                                *)
(***************************************************************************)
OnlyErrorNoticesAfter(p, i) ==
    \A k \in (i + 1)..Len(log[p]) :
        log[p][k].op = "say" /\ IsErrorNotice(log[p][k].text)

NoReplyDelivered(p) ==
    \A k \in Says(p) : log[p][k].ok => IsErrorNotice(log[p][k].text)

C38_PartialTurnKept ==
    \A p \in Procs :
        \A i \in 1..Len(log[p]) :
            LET c == log[p][i]
                stored == StoredLog(thread_ts[p])
                n == Len(stored)
            IN /\ (c.op = "add" /\ c.role = "assistant" /\ ~c.ok) =>
                    /\ ask[p].pc = "ret"
                    /\ Stored(p, "assistant") = {}
                    /\ n >= 1
                    /\ stored[n] = [role |-> "user", content |-> parsed[p].user_message]
                    /\ \A k \in Says(p) : k > i
                    /\ OnlyErrorNoticesAfter(p, i)
               /\ (c.op = "say" /\ ~c.ok /\ (i - 1) \in Stored(p, "assistant")) =>
                    /\ c.text = response[p]
                    /\ n >= 2
                    /\ stored[n - 1] = [role |-> "user", content |-> parsed[p].user_message]
                    /\ stored[n] = [role |-> "assistant", content |-> response[p]]
                    /\ NoReplyDelivered(p)
                    /\ OnlyErrorNoticesAfter(p, i)

\* The assistant row of a thread's second turn could not be written; the
\* error notice went out and the thread holds three rows.
C38_Witness ==
    \E p \in Procs :
        /\ pc[p] = "done" /\ Len(Effects(p)) = 5
        /\ Effects(p)[4] = Call("add", thread_ts[p], "assistant", response[p], FALSE)
        /\ Effects(p)[5] = Call("say", thread_ts[p], "", ErrorNotice("sqlite3.Error"), TRUE)
        /\ RowCount(thread_ts[p]) = 3


(***************************************************************************)
(* C39: when clear_thread_history fails for a clear command, the           *)
(* confirmation is not sent, the call after the failed one is the send of  *)
(* the error notice to the thread and every later call the send of an      *)
(* error notice, and no step of the event, from the failed call on,        *)
(* changes the rows.                                                       *)
(***************************************************************************)
ClearFailed(calls) == \E i \in 1..Len(calls) : calls[i].op = "clear" /\ ~calls[i].ok

C39_FailedClear ==
    /\ [](\A p \in Procs :
            \A i \in 1..Len(log[p]) :
                (log[p][i].op = "clear" /\ ~log[p][i].ok) =>
                    /\ parsed[p].command = "clear"
                    /\ \A k \in Says(p) : log[p][k].text # ClearedNotice
                    /\ OnlyErrorNoticesAfter(p, i)
                    /\ i < Len(log[p]) =>
                          log[p][i + 1].text = ErrorNotice("sqlite3.Error")
                          /\ log[p][i + 1].thread = log[p][i].thread
                    /\ pc[p] = "done" => i < Len(log[p]))
    /\ [][\A p \in Procs : ClearFailed(log'[p]) => rows' = rows]_vars

\* The clear of a thread with two rows failed and so did the send of the
\* error notice; the second notice went out, and the two rows are there.
C39_Witness ==
    \E p \in Procs :
        /\ pc[p] = "done" /\ Len(Effects(p)) = 3
        /\ Effects(p)[1] = Call("clear", thread_ts[p], "", <<>>, FALSE)
        /\ Effects(p)[2] = Call("say", thread_ts[p], "", ErrorNotice("sqlite3.Error"), FALSE)
        /\ Effects(p)[3] = Call("say", thread_ts[p], "", SorryNotice, TRUE)
        /\ RowCount(thread_ts[p]) = 2


(***************************************************************************)
(* C31: a thread has rows from the moment the user message of a mention's  *)
(* chat turn is stored for it, and that row is its first; an event whose   *)
(* command is help or clear, or whose user message is empty, adds no row   *)
(* to any thread; a clear that succeeds leaves its thread without rows;    *)
(* and a plain reply in a thread without rows ends at once, with no store  *)
(* change, no gateway call and no send, so that only a mention's chat turn *)
(* gives the thread rows again.  Events are handled one at a time.         *)
(***************************************************************************)
Exists(rs, t) == RowsOf(rs, t) # <<>>

AddsNoRow(p) == parsed[p].command \in {"help", "clear"} \/ EmptyChat(p)

C31_ThreadLifecycle ==
    /\ [](\A t \in Threads : Exists(rows, t) => RowsOf(rows, t)[1].role = "user")
    /\ [][\A t \in Threads :
            (~Exists(rows, t) /\ Exists(rows', t)) =>
                \E p \in Procs :
                    /\ entry[p] = "mention" /\ ChatTurn(p) /\ thread_ts[p] = t
                    /\ Len(RowsOf(rows', t)) = 1
                    /\ RowsOf(rows', t)[1].role = "user"
                    /\ RowsOf(rows', t)[1].content = parsed[p].user_message]_vars
    /\ [][\A p \in Procs :
            (pc[p] # "idle" /\ AddsNoRow(p)) =>
                \A t \in Threads : Len(RowsOf(rows', t)) <= Len(RowsOf(rows, t))]_vars
    /\ [][\A p \in Procs :
            (/\ Len(log'[p]) = Len(log[p]) + 1
             /\ log'[p][Len(log'[p])].op = "clear" /\ log'[p][Len(log'[p])].ok) =>
                ~Exists(rows', thread_ts[p])]_vars
    /\ [][\A p \in Procs :
            (/\ pc[p] = "idle" /\ entry'[p] = "message"
             /\ ev'[p].thread_ts \in Threads /\ ~Exists(rows, ev'[p].thread_ts)) =>
                /\ pc'[p] = "done" /\ rows' = rows /\ ask'[p] = NoAsk
                /\ \A i \in 1..Len(log'[p]) : log'[p][i].op \notin {"say", "add", "ask"}]_vars

\* Every row ever stored has been cleared; a plain reply in the thread T1,
\* which has no row, has been dropped at the lookup.
C31_Witness ==
    \E p \in Procs :
        /\ pc[p] = "done" /\ entry[p] = "message"
        /\ ev[p].thread_ts = "T1" /\ ev[p].text = Hi
        /\ rows = <<>> /\ nextId = 3
        /\ log[p] = <<Call("has", "T1", "", <<>>, TRUE)>>


(***************************************************************************)
(* C40 as stated: for a response whose status s is not a success code, ask *)
(* returns the description of an HTTP error that names s.                  *)
(***************************************************************************)
C40_AsStated ==
    \A p \in Procs :
        (Responded(p) /\ ask[p].outcome.status \notin SuccessCodes) =>
            ask[p].result =
                PyStr(<<"Ollama error occurred: ", StatusStr(ask[p].outcome.status)>>)


(***************************************************************************)
(* C33: the gateway's model is one attribute shared by every invocation.   *)
(* Each request names the model the attribute holds when the request is    *)
(* made, whoever set it; the attribute changes only in the set and restore *)
(* steps of invocations that carry an override; and a restore puts back    *)
(* what its invocation read before its set, not the configured default.    *)
(* So, with two invocations interleaved, a request can name the other      *)
(* invocation's model and the attribute can be left off the default once   *)
(* both have returned: the state C33_Witness describes.                    *)
(***************************************************************************)
Stepped(p) == ask'[p].pc # ask[p].pc

C33_SharedModel ==
    /\ [][\A p \in Procs :
            Len(ask'[p].requests) = Len(ask[p].requests) + 1 =>
                ask'[p].requests[Len(ask'[p].requests)].model = model]_vars
    /\ [][model' # model =>
            \E p \in Procs :
                /\ Stepped(p) /\ ask[p].pc \in {"set", "restore"}
                /\ Truthy(ask[p].model_name)]_vars
    /\ [][\A p \in Procs :
            (Stepped(p) /\ ask[p].pc = "restore" /\ Truthy(ask[p].model_name)) =>
                model' = ask[p].original_model]_vars

\* Both invocations have returned: the request of the first, whose override
\* is m, named n, the override of the second, and the gateway's model is
\* left at m.
C33_Witness ==
    /\ ask[1].pc = "ret" /\ ask[2].pc = "ret"
    /\ ask[1].model_name = Some(<<"m">>) /\ ask[2].model_name = Some(<<"n">>)
    /\ ask[1].requests[1].model = <<"n">>
    /\ model = <<"m">> /\ model # DefaultModel


(***************************************************************************)
(* C32: nothing keeps the store steps of one event apart from those of     *)
(* another on the same thread.  A read of the history that succeeds gives  *)
(* the thread's rows as they are at that step, the rows of an event that   *)
(* is in the middle of its turn included, and a write puts its row behind  *)
(* every row there is at that step, whichever event wrote it.  So, with    *)
(* two events of one thread interleaved, both user rows can come before    *)
(* both assistant rows and one event's history can hold the other's user   *)
(* message: the state C32_Witness describes.                               *)
(***************************************************************************)
LastCall(p) == log'[p][Len(log'[p])]

Called(p, op) ==
    /\ Len(log'[p]) = Len(log[p]) + 1
    /\ LastCall(p).op = op /\ LastCall(p).ok

C32_NoThreadLock ==
    /\ [][\A p \in Procs :
            Called(p, "hist") =>
                history'[p] = get_history(rows, thread_ts[p], DefaultLimit)]_vars
    /\ [][\A p \in Procs :
            Called(p, "add") =>
                rows' = Append(rows, Row(nextId, thread_ts[p], LastCall(p).role,
                                         LastCall(p).text))]_vars

\* Both events are through: the thread's rows are user hi, user yo and the
\* two replies, and the history the first event read held the second's yo.
C32_Witness ==
    /\ pc[1] = "done" /\ pc[2] = "done"
    /\ thread_ts[1] = thread_ts[2]
    /\ parsed[1].user_message = Hi /\ parsed[2].user_message = Yo
    /\ Len(rows) = 4
    /\ rows[1].role = "user" /\ rows[1].content = Hi
    /\ rows[2].role = "user" /\ rows[2].content = Yo
    /\ rows[3].role = "assistant" /\ rows[4].role = "assistant"
    /\ history[1] = <<[role |-> "user", content |-> Hi],
                      [role |-> "user", content |-> Yo]>>

=============================================================================
